---------------------------- MODULE Spec2Model ----------------------------
(***************************************************************************)
(* Model of the visual diff and similarity scoring engine of websnapshots  *)
(* (src/ai_compare.py): rectangle overlap (IoU), the two greedy object     *)
(* matchers, text normalisation and text set comparison, and the pixel     *)
(* difference ratio.                                                       *)
(*                                                                         *)
(* Conventions.                                                            *)
(*  - A bounding box is the tuple <<x, y, width, height>> of the source.   *)
(*  - A Python float that is the quotient of two integers is kept as the   *)
(*    exact fraction <<numerator, denominator>> (denominator > 0); the     *)
(*    literals 0.0, 1.0, 0.3 and 0.5 are the fractions 0/1, 1/1, 3/10 and  *)
(*    1/2. Comparisons are by cross multiplication.                        *)
(*  - Python list positions 0..n-1 are sequence positions 1..n; the        *)
(*    source's "no candidate" value best_j = -1 is 0 here, and a None      *)
(*    region reference in a diff is 0.                                     *)
(*  - An ObjectRegion is represented by its bbox and its position in its   *)
(*    list (label, confidence and object_type are never read by the        *)
(*    matchers); a TextRegion by its text.                                 *)
(***************************************************************************)
EXTENDS Integers, Sequences, FiniteSets, TLC

VARIABLES
    unit,               \* which part of the engine this run exercises
    pc,                 \* position of the run inside that part
    bbox1, bbox2,       \* arguments of calculate_bbox_iou
    iou,                \* its return value
    regions1, regions2, \* object region lists (before, after)
    object_diffs,       \* return value of detect_object_diffs(regions1, regions2)
    accepted,           \* the (i, best_j) pairs that passed line 527, in order
    swapped_diffs,      \* return value of detect_object_diffs(regions2, regions1)
    swapped_accepted,   \* the pairs accepted by that call
    matched_pairs,      \* matched_pairs of calculate_object_similarity
    object_similarity,  \* its return value
    text_regions1, text_regions2,   \* texts of the TextRegion lists (before, after)
    text_diffs,         \* return value of detect_text_diffs
    text_similarity,    \* return value of calculate_text_similarity
    img1, img2,         \* arguments of calculate_pixel_diff
    pixel_similarity,   \* first component of its return value
    pixel_stats,        \* second component: the stats dictionary
    normalized,         \* the two images after they were brought to one size
    visualization,      \* the canvas create_diff_visualization saved
    vis_diffs,          \* the text and object diffs it was handed
    score_args,         \* arguments of calculate_overall_diff_score
    overall_score,      \* its return value
    category,           \* return value of categorize_diff_score(overall_score)
    request,            \* the comparison compare_images_with_ai is tested on
    result,             \* the ComparisonResult the latest call returned
    clock,              \* the time, counted in calls of compare_images_with_ai
    first_result,       \* what the first call on request returned
    second_result,      \* what the second call on request returned
    program,            \* the command line program that runs
    args,               \* its parsed arguments
    exit_code,          \* its exit code, -1 while it runs
    errors,             \* the failures it reported
    images_loaded,      \* number of load_image calls that returned
    hashes_computed,    \* number of image hashes computed
    written,            \* the output files opened for writing
    report_file,        \* the file at the report path: "absent", "empty",
                        \* "partial" or "complete"
    analysis_error,     \* glm_diff: the analysis holds "error"
    options,            \* websnapshot: the parsed --width, --height, --wait
    validation,         \* return value of validate_options(options)
    fb_call,            \* the function with the fallback loop and its model argument
    fallback_models,    \* its local list of the models to try
    attempts,           \* the models it has tried and how each attempt ended
    fb_result,          \* the dict it returned
    batch_args,         \* run_batch: the parsed arguments and the batch file
    urls,               \* its list of URLs
    url_index,          \* position of the for loop (1-based)
    success_count,
    error_count,
    wall_clock,         \* the wall clock, in whole seconds
    attempted,          \* the URLs handed to run_screenshot so far
    saved_files,        \* the screenshots written: URL position and path
    batch_exit,         \* the return value of run_batch
    batch_raised,       \* run_batch was left by an exception
    last_height,        \* _wait_for_page_stabilization: its three locals
    stable_count,
    iteration,
    samples,            \* number of height samples taken
    recent              \* 0 (the first last_height) and the samples: the latest four

iouVars == <<bbox1, bbox2, iou>>
objVars == <<regions1, regions2, object_diffs, accepted, swapped_diffs,
             swapped_accepted, matched_pairs, object_similarity>>
textVars == <<text_regions1, text_regions2, text_diffs, text_similarity>>
pixVars == <<img1, img2, pixel_similarity, pixel_stats, normalized, visualization,
            vis_diffs>>
scoreVars == <<score_args, overall_score, category>>
cmpVars == <<request, result, clock, first_result, second_result>>
cliVars == <<program, args, exit_code, errors, images_loaded, hashes_computed,
             written, report_file, analysis_error>>
optVars == <<options, validation>>
\* the variables of the snapshot tool (src/websnapshot)
fbVars == <<fb_call, fallback_models, attempts, fb_result>>
batchVars ==
    <<batch_args, urls, url_index, success_count, error_count, wall_clock, attempted,
      saved_files, batch_exit, batch_raised>>
stabVars == <<last_height, stable_count, iteration, samples, recent>>
snapVars == <<optVars, fbVars, batchVars, stabVars>>
vars == <<unit, pc, iouVars, objVars, textVars, pixVars, scoreVars, cmpVars, cliVars,
          snapVars>>

---------------------------------------------------------------------------
(* Bounds of the model *)

\* largest x / y offset of a rectangle
MaxCoord == 2
\* largest width / height of a rectangle
MaxSide == 3
\* largest x offset of a rectangle in a list of several regions
MaxRowCoord == 1
\* largest number of object regions in one comparison (both lists together)
MaxRegions == 3
\* largest number of text regions in one comparison (both lists together)
MaxTexts == 3
\* longest text of a region in those lists
MaxTextLen == 2
\* longest text when each side holds a single region
MaxLongTextLen == 4
\* largest image width
MaxImageWidth == 2

Coords == 0..MaxCoord
Sides == 0..MaxSide
\* every rectangle with non-negative width and height inside the bounds
Rects == Coords \X Coords \X Sides \X Sides
\* the rectangles of the lists of several regions: one row of unit height
RowRects == {<<x, 0, w, 1>> : x \in 0..MaxRowCoord, w \in Sides}

\* two rectangles whose IoU is 3/10, the threshold of calculate_object_similarity
ThresholdRects == {<<0, 0, 3, 3>>, <<0, 0, 4, 1>>}

\* the sequences over S of length at most n
SeqsUpTo(S, n) == UNION {[1..m -> S] : m \in 0..n}
ShortTexts == SeqsUpTo({"a", " "}, MaxTextLen)
LongTexts == SeqsUpTo({"a", " ", "\n"}, MaxLongTextLen)


---------------------------------------------------------------------------
(* Exact fractions standing for the source's floats *)

Zero == <<0, 1>>
One == <<1, 1>>
RatGT(a, b) == a[1] * b[2] > b[1] * a[2]
RatGE(a, b) == a[1] * b[2] >= b[1] * a[2]
RatEQ(a, b) == a[1] * b[2] = b[1] * a[2]
RatAdd(a, b) == <<a[1] * b[2] + b[1] * a[2], a[2] * b[2]>>
RatMul(a, b) == <<a[1] * b[1], a[2] * b[2]>>
RatDivInt(a, n) == <<a[1], a[2] * n>>

RECURSIVE GCD(_, _)
GCD(a, b) == IF b = 0 THEN a ELSE GCD(b, a % b)
\* the same fraction in lowest terms, which keeps the integers of a sum small
RatLowest(q) ==
    LET g == GCD(IF q[1] < 0 THEN 0 - q[1] ELSE q[1], q[2])
    IN  IF g = 0 THEN q ELSE <<q[1] \div g, q[2] \div g>>

Max(a, b) == IF a >= b THEN a ELSE b
Min(a, b) == IF a <= b THEN a ELSE b

---------------------------------------------------------------------------
(* calculate_bbox_iou *)

\* a faulty variant that takes the sum of the two areas for the union
calculate_bbox_iou_no_subtract(b1, b2) ==
    LET x_left == Max(b1[1], b2[1])
        y_top == Max(b1[2], b2[2])
        x_right == Min(b1[1] + b1[3], b2[1] + b2[3])
        y_bottom == Min(b1[2] + b1[4], b2[2] + b2[4])
    IN  IF x_right < x_left \/ y_bottom < y_top
        THEN <<0, 1>>
        ELSE LET intersection_area == (x_right - x_left) * (y_bottom - y_top)
                 union_area == b1[3] * b1[4] + b2[3] * b2[4]
             IN  IF union_area > 0 THEN <<intersection_area, union_area>> ELSE <<0, 1>>

\* a faulty variant that divides without looking at union_area
calculate_bbox_iou_unguarded(b1, b2) ==
    LET x_left == Max(b1[1], b2[1])
        y_top == Max(b1[2], b2[2])
        x_right == Min(b1[1] + b1[3], b2[1] + b2[3])
        y_bottom == Min(b1[2] + b1[4], b2[2] + b2[4])
    IN  IF x_right < x_left \/ y_bottom < y_top
        THEN <<0, 1>>
        ELSE LET intersection_area == (x_right - x_left) * (y_bottom - y_top)
                 union_area == b1[3] * b1[4] + b2[3] * b2[4] - intersection_area
             IN  <<intersection_area, union_area>>

calculate_bbox_iou(b1, b2) ==
    LET x1 == b1[1]
        y1 == b1[2]
        w1 == b1[3]
        h1 == b1[4]
        x2 == b2[1]
        y2 == b2[2]
        w2 == b2[3]
        h2 == b2[4]
        x_left == Max(x1, x2)
        y_top == Max(y1, y2)
        x_right == Min(x1 + w1, x2 + w2)
        y_bottom == Min(y1 + h1, y2 + h2)
    IN  IF x_right < x_left \/ y_bottom < y_top
        THEN Zero
        ELSE LET intersection_area == (x_right - x_left) * (y_bottom - y_top)
                 bbox1_area == w1 * h1
                 bbox2_area == w2 * h2
                 union_area == bbox1_area + bbox2_area - intersection_area
             IN  IF union_area > 0 THEN <<intersection_area, union_area>> ELSE Zero


---------------------------------------------------------------------------
(* detect_object_diffs *)

\* a faulty variant that already treats regions of IoU above 1/4 as the same
MatchThreshold_low == <<1, 4>>

\* IoU above which detect_object_diffs treats two regions as the same object
MatchThreshold == <<1, 2>>

\* a faulty variant that also keeps a pairing whose IoU equals the threshold
AcceptMatch_equal(best_iou, best_j) == best_j >= 1 /\ RatGE(best_iou, MatchThreshold)

\* line 527: the pairing is kept
AcceptMatch(best_iou, best_j) == best_j >= 1 /\ RatGT(best_iou, MatchThreshold)

\* lines 521-525: scan of the after list for one before region, from position j
RECURSIVE BestOfAll(_, _, _, _, _)
BestOfAll(obj1, rs2, j, best_iou, best_j) ==
    IF j > Len(rs2)
    THEN <<best_iou, best_j>>
    ELSE LET v == calculate_bbox_iou(obj1, rs2[j])
         IN  IF RatGT(v, best_iou)
             THEN BestOfAll(obj1, rs2, j + 1, v, j)
             ELSE BestOfAll(obj1, rs2, j + 1, best_iou, best_j)

\* a faulty variant with the comparison of the distance test turned around
CenterMoved_less(b1, b2) ==
    LET dx2 == (2 * b1[1] + b1[3]) - (2 * b2[1] + b2[3])
        dy2 == (2 * b1[2] + b1[4]) - (2 * b2[2] + b2[4])
    IN  dx2 * dx2 + dy2 * dy2 < b1[3] * b1[3] + b1[4] * b1[4]

\* lines 532-535, with both sides of the comparison multiplied by 4:
\* center_dist > (w1 * 0.5)**2 + (h1 * 0.5)**2
CenterMoved(b1, b2) ==
    LET dx2 == (2 * b1[1] + b1[3]) - (2 * b2[1] + b2[3])
        dy2 == (2 * b1[2] + b1[4]) - (2 * b2[2] + b2[4])
    IN  dx2 * dx2 + dy2 * dy2 > b1[3] * b1[3] + b1[4] * b1[4]

ObjectDiff(before, after, type) ==
    [object_before |-> before, object_after |-> after, diff_type |-> type]

\* lines 518-540: the matching pass over the before list, from position i
RECURSIVE MatchLoop(_, _, _, _)
MatchLoop(rs1, rs2, i, st) ==
    IF i > Len(rs1)
    THEN st
    ELSE LET best == BestOfAll(rs1[i], rs2, 1, Zero, 0)
             best_iou == best[1]
             best_j == best[2]
         IN  IF AcceptMatch(best_iou, best_j)
             THEN MatchLoop(rs1, rs2, i + 1,
                    [matched1 |-> st.matched1 \cup {i},
                     matched2 |-> st.matched2 \cup {best_j},
                     accepted |-> Append(st.accepted, <<i, best_j>>),
                     diffs |-> IF CenterMoved(rs1[i], rs2[best_j])
                               THEN Append(st.diffs, ObjectDiff(i, best_j, "moved"))
                               ELSE st.diffs])
             ELSE MatchLoop(rs1, rs2, i + 1, st)

\* a faulty variant that reports every before region as removed
RECURSIVE RemovedLoop_all(_, _, _)
RemovedLoop_all(rs1, matched1, i) ==
    IF i > Len(rs1)
    THEN <<>>
    ELSE <<ObjectDiff(i, 0, "removed")>> \o RemovedLoop_all(rs1, matched1, i + 1)

\* lines 543-549
RECURSIVE RemovedLoop(_, _, _)
RemovedLoop(rs1, matched1, i) ==
    IF i > Len(rs1)
    THEN <<>>
    ELSE (IF i \notin matched1 THEN <<ObjectDiff(i, 0, "removed")>> ELSE <<>>)
         \o RemovedLoop(rs1, matched1, i + 1)

\* a faulty variant that reports every after region as added
RECURSIVE AddedLoop_all(_, _, _)
AddedLoop_all(rs2, matched2, j) ==
    IF j > Len(rs2)
    THEN <<>>
    ELSE <<ObjectDiff(0, j, "added")>> \o AddedLoop_all(rs2, matched2, j + 1)

\* lines 552-558
RECURSIVE AddedLoop(_, _, _)
AddedLoop(rs2, matched2, j) ==
    IF j > Len(rs2)
    THEN <<>>
    ELSE (IF j \notin matched2 THEN <<ObjectDiff(0, j, "added")>> ELSE <<>>)
         \o AddedLoop(rs2, matched2, j + 1)

\* The function returns diffs; accepted is the history of the pairs that line 527
\* let through, kept for the claims about the matching.
detect_object_diffs(rs1, rs2) ==
    LET m == MatchLoop(rs1, rs2, 1,
                 [matched1 |-> {}, matched2 |-> {}, accepted |-> <<>>, diffs |-> <<>>])
    IN  [diffs |-> m.diffs \o RemovedLoop(rs1, m.matched1, 1)
                          \o AddedLoop(rs2, m.matched2, 1),
         accepted |-> m.accepted]

---------------------------------------------------------------------------
(* calculate_object_similarity *)

\* IoU above which calculate_object_similarity counts a pair
SimilarityThreshold == <<3, 10>>

\* line 489
AcceptSimilar(best_iou, best_j) == best_j >= 1 /\ RatGT(best_iou, SimilarityThreshold)

\* a faulty variant that does not skip the after regions in used_indices2
BestOfUnused_ignoring(obj1, rs2, used_indices2, j, best_iou, best_j) ==
    BestOfAll(obj1, rs2, j, best_iou, best_j)

\* lines 481-487: scan of the after regions not in used_indices2
RECURSIVE BestOfUnused(_, _, _, _, _, _)
BestOfUnused(obj1, rs2, used_indices2, j, best_iou, best_j) ==
    IF j > Len(rs2)
    THEN <<best_iou, best_j>>
    ELSE IF j \in used_indices2
    THEN BestOfUnused(obj1, rs2, used_indices2, j + 1, best_iou, best_j)
    ELSE LET v == calculate_bbox_iou(obj1, rs2[j])
         IN  IF RatGT(v, best_iou)
             THEN BestOfUnused(obj1, rs2, used_indices2, j + 1, v, j)
             ELSE BestOfUnused(obj1, rs2, used_indices2, j + 1, best_iou, best_j)

\* lines 478-491: matched_pairs after the pass over the before list from position i
RECURSIVE SimilarityLoop(_, _, _, _, _)
SimilarityLoop(rs1, rs2, i, used_indices2, pairs) ==
    IF i > Len(rs1)
    THEN pairs
    ELSE LET best == BestOfUnused(rs1[i], rs2, used_indices2, 1, Zero, 0)
         IN  IF AcceptSimilar(best[1], best[2])
             THEN SimilarityLoop(rs1, rs2, i + 1, used_indices2 \cup {best[2]},
                                 Append(pairs, <<i, best[2], best[1]>>))
             ELSE SimilarityLoop(rs1, rs2, i + 1, used_indices2, pairs)

\* sum(iou for _, _, iou in matched_pairs)
RECURSIVE SumIoU(_)
SumIoU(pairs) ==
    IF pairs = <<>> THEN Zero ELSE RatAdd(Head(pairs)[3], SumIoU(Tail(pairs)))

\* a faulty variant that counts each pair once in the coverage
CoverageScore_single(pairs, n1, n2) ==
    LET avg_iou == RatDivInt(SumIoU(pairs), Len(pairs))
        total_objects == n1 + n2
        matched_count == Len(pairs)
        coverage == IF total_objects > 0 THEN <<matched_count, total_objects>> ELSE <<0, 1>>
    IN  RatMul(avg_iou, coverage)

\* lines 497-504
CoverageScore(pairs, n1, n2) ==
    LET avg_iou == RatDivInt(SumIoU(pairs), Len(pairs))
        total_objects == n1 + n2
        matched_count == Len(pairs) * 2
        coverage == IF total_objects > 0 THEN <<matched_count, total_objects>> ELSE Zero
    IN  RatMul(avg_iou, coverage)

\* The function returns sim; matched_pairs is its local list, kept for the claims.
calculate_object_similarity(rs1, rs2) ==
    IF rs1 = <<>> /\ rs2 = <<>>
    THEN [sim |-> One, matched_pairs |-> <<>>]
    ELSE IF rs1 = <<>> \/ rs2 = <<>>
    THEN [sim |-> Zero, matched_pairs |-> <<>>]
    ELSE LET pairs == SimilarityLoop(rs1, rs2, 1, {}, <<>>)
         IN  IF pairs = <<>>
             THEN [sim |-> Zero, matched_pairs |-> pairs]
             ELSE [sim |-> CoverageScore(pairs, Len(rs1), Len(rs2)),
                   matched_pairs |-> pairs]

---------------------------------------------------------------------------
(* normalize_text, calculate_text_similarity, detect_text_diffs *)

\* A text is a sequence of characters; Whitespace are the characters \s matches.
Whitespace == {" ", "\n"}

\* the leading half of text.strip()
RECURSIVE LStrip(_)
LStrip(t) == IF t # <<>> /\ Head(t) \in Whitespace THEN LStrip(Tail(t)) ELSE t

\* the trailing half of text.strip()
RECURSIVE RStrip(_)
RStrip(t) ==
    IF t # <<>> /\ t[Len(t)] \in Whitespace
    THEN RStrip(SubSeq(t, 1, Len(t) - 1))
    ELSE t

\* re.sub(r'\s+', ' ', t): every maximal run of whitespace becomes one space
RECURSIVE CollapseWhitespace(_)
CollapseWhitespace(t) ==
    IF t = <<>>
    THEN <<>>
    ELSE IF Head(t) \in Whitespace
    THEN <<" ">> \o CollapseWhitespace(LStrip(Tail(t)))
    ELSE <<Head(t)>> \o CollapseWhitespace(Tail(t))

\* a faulty variant of normalize_text: it leaves out text.strip()
normalize_text_unstripped(text) == CollapseWhitespace(text)

normalize_text(text) == CollapseWhitespace(RStrip(LStrip(text)))

\* set(normalize_text(r.text) for r in regions)
TextSet(rs) == {normalize_text(rs[k]) : k \in DOMAIN rs}

\* a faulty variant of calculate_text_similarity: it divides by len(texts1) + len(texts2)
calculate_text_similarity_sum(rs1, rs2) ==
    LET texts1 == TextSet(rs1)
        texts2 == TextSet(rs2)
    IN  IF texts1 = {} /\ texts2 = {} THEN <<1, 1>>
        ELSE IF texts1 = {} \/ texts2 = {} THEN <<0, 1>>
        ELSE LET intersection == Cardinality(texts1 \cap texts2)
                 union == Cardinality(texts1) + Cardinality(texts2)
             IN  IF union > 0 THEN <<intersection, union>> ELSE <<0, 1>>

calculate_text_similarity(rs1, rs2) ==
    LET texts1 == TextSet(rs1)
        texts2 == TextSet(rs2)
    IN  IF texts1 = {} /\ texts2 = {} THEN One
        ELSE IF texts1 = {} \/ texts2 = {} THEN Zero
        ELSE LET intersection == Cardinality(texts1 \cap texts2)
                 union == Cardinality(texts1 \cup texts2)
             IN  IF union > 0 THEN <<intersection, union>> ELSE Zero

\* the keys of {normalize_text(r.text): r for r in regions} built from the first k
\* regions, in insertion order (a key keeps the place of its first insertion)
RECURSIVE DictKeys(_, _)
DictKeys(rs, k) ==
    IF k = 0
    THEN <<>>
    ELSE LET prev == DictKeys(rs, k - 1)
             key == normalize_text(rs[k])
         IN  IF \E m \in DOMAIN prev : prev[m] = key THEN prev ELSE Append(prev, key)

\* a TextDiff without its bbox, which no comparison reads
TextDiff(before, after, type) ==
    [text_before |-> before, text_after |-> after, diff_type |-> type]

detect_text_diffs(rs1, rs2) ==
    LET texts1 == DictKeys(rs1, Len(rs1))
        texts2 == DictKeys(rs2, Len(rs2))
        only1 == SelectSeq(texts1, LAMBDA t : \A m \in DOMAIN texts2 : texts2[m] # t)
        only2 == SelectSeq(texts2, LAMBDA t : \A m \in DOMAIN texts1 : texts1[m] # t)
    IN  [k \in DOMAIN only1 |-> TextDiff(only1[k], <<>>, "removed")]
        \o [k \in DOMAIN only2 |-> TextDiff(<<>>, only2[k], "added")]

---------------------------------------------------------------------------
(* Pixel statistics and image normalisation *)

\* An image is [width, height, data]: data holds the width * height pixels row by
\* row, each an <<R, G, B>> triple.
Image(w, h, data) == [width |-> w, height |-> h, data |-> data]

\* gray levels around the noise threshold, and one saturated color
PixelSamples == {<<0, 0, 0>>, <<9, 9, 9>>, <<10, 10, 10>>, <<255, 0, 0>>}
ImageHeights == {0, 1}
ImagesOfSize(w, h) == {Image(w, h, d) : d \in [1..(w * h) -> PixelSamples]}

\* levels of the difference image counted as differing: hist[10:]
NoiseThreshold == 10

Abs(n) == IF n >= 0 THEN n ELSE 0 - n

\* ImageChops.difference on one pixel: the absolute difference of each channel
ChannelDifference(p, q) == <<Abs(p[1] - q[1]), Abs(p[2] - q[2]), Abs(p[3] - q[3])>>

\* convert('L') on one pixel: the ITU-R 601-2 luma in 16 bit fixed point
Luma(p) == (p[1] * 19595 + p[2] * 38470 + p[3] * 7471 + 32768) \div 65536

\* a faulty variant of resize that resamples even an image of the target size
Resized_always(img, w, h) == ImagesOfSize(w, h)

\* img.resize((target_width, target_height), LANCZOS): an image that already has
\* the target size is copied; otherwise the resampled content is whatever the
\* filter produces, any image of the target size
Resized(img, w, h) ==
    IF img.width = w /\ img.height = h THEN {img} ELSE ImagesOfSize(w, h)

SameSize(i1, i2) == i1.width = i2.width /\ i1.height = i2.height

\* resize refuses a target without pixels; that is the only way normalisation
\* fails, and it needs two images of different sizes
NormalizeRaises(i1, i2) ==
    /\ ~SameSize(i1, i2)
    /\ Max(i1.width, i2.width) * Max(i1.height, i2.height) = 0

\* ai_compare.py lines 630-634 and 708-712: the two images brought to one size,
\* resize being called only when the sizes differ
NormalizedPairs(i1, i2) ==
    IF i1.width # i2.width \/ i1.height # i2.height
    THEN LET target_width == Max(i1.width, i2.width)
             target_height == Max(i1.height, i2.height)
         IN  Resized(i1, target_width, target_height)
                \X Resized(i2, target_width, target_height)
    ELSE {<<i1, i2>>}

\* compare_images.py resize_to_match: resize is called on both images always
resize_to_match(i1, i2) ==
    LET target_width == Max(i1.width, i2.width)
        target_height == Max(i1.height, i2.height)
    IN  Resized(i1, target_width, target_height)
            \X Resized(i2, target_width, target_height)

\* ImageChops.difference(img1, img2).convert('L'): one level 0..255 per pixel
Difference(n1, n2) ==
    [k \in DOMAIN n1.data |-> Luma(ChannelDifference(n1.data[k], n2.data[k]))]

\* sum(hist[level:]): the pixels of the difference image at level or above
HistogramFrom(diff, level) == Cardinality({k \in DOMAIN diff : diff[k] >= level})

RECURSIVE SumLevels(_, _)
SumLevels(diff, k) == IF k = 0 THEN 0 ELSE diff[k] + SumLevels(diff, k - 1)

\* ImageStat.Stat(diff).mean divides the sum of the levels by the pixel count, and
\* raises ZeroDivisionError when the image has no pixel
StatMeanRaises(diff) == Len(diff) = 0
StatMean(diff) == <<SumLevels(diff, Len(diff)), Len(diff)>>

\* ImageStat.Stat(diff).extrema[0][1]: the largest level, 0 in an empty histogram
StatMax(diff) ==
    IF Len(diff) = 0 THEN 0
    ELSE CHOOSE m \in {diff[k] : k \in DOMAIN diff} : \A k \in DOMAIN diff : diff[k] <= m

\* ai_compare.py lines 637-657 on two images of one size: whether the call raised,
\* and if not the similarity and the stats dictionary
calculate_pixel_diff(n1, n2) ==
    LET diff == Difference(n1, n2)
        total_pixels == n1.width * n1.height
        different_pixels == HistogramFrom(diff, NoiseThreshold)
        diff_ratio == IF total_pixels > 0
                      THEN <<different_pixels * 100, total_pixels>>
                      ELSE Zero
        ratio == RatDivInt(diff_ratio, 100)
    IN  IF StatMeanRaises(diff)
        THEN [raised |-> TRUE]
        ELSE [raised |-> FALSE,
              similarity |-> <<ratio[2] - ratio[1], ratio[2]>>,
              stats |-> [total_pixels |-> total_pixels,
                         different_pixels |-> different_pixels,
                         diff_ratio |-> diff_ratio,
                         mean_diff |-> StatMean(diff),
                         max_diff |-> StatMax(diff)]]

\* compare_images.py lines 358-397 on the pair resize_to_match returned: the
\* handlers around extrema and mean catch IndexError and TypeError only
calculate_pixel_stats(r1, r2) ==
    LET diff == Difference(r1, r2)
        different_pixels == HistogramFrom(diff, NoiseThreshold)
        total_pixels == r1.width * r1.height
        ratio == IF total_pixels > 0
                 THEN <<different_pixels * 100, total_pixels>>
                 ELSE Zero
    IN  IF StatMeanRaises(diff)
        THEN [raised |-> TRUE]
        ELSE [raised |-> FALSE,
              stats |-> [total_pixels |-> total_pixels,
                         different_pixels |-> different_pixels,
                         ratio |-> ratio,
                         max_diff |-> StatMax(diff),
                         mean_diff |-> StatMean(diff)]]

---------------------------------------------------------------------------
(* create_diff_visualization *)

\* side of a block of the pixel difference grid: range(0, width, 10)
BlockSize == 10
\* level above which a pixel marks its block: threshold = 30
MarkThreshold == 30

\* None where a diff has no region on one side
NoRegion == <<>>

\* draw.rectangle([x0, y0, x1, y1], outline=color, width=stroke)
Rectangle(box, outline, stroke) == [box |-> box, outline |-> outline, width |-> stroke]

\* lines 728-735: some pixel of the block at (x, y) is above the threshold
HasDiff(diff, width, height, x, y) ==
    \E by \in y..(Min(y + BlockSize, height) - 1) :
       \E bx \in x..(Min(x + BlockSize, width) - 1) :
          diff[by * width + bx + 1] > MarkThreshold

\* lines 725-740: the blocks row by row, b counting them; a marked block is outlined
\* on both halves
RECURSIVE GridLoop(_, _, _, _)
GridLoop(diff, width, height, b) ==
    LET nx == (width + BlockSize - 1) \div BlockSize
        ny == (height + BlockSize - 1) \div BlockSize
    IN  IF b >= nx * ny THEN <<>>
        ELSE LET x == (b % nx) * BlockSize
                 y == (b \div nx) * BlockSize
             IN  (IF HasDiff(diff, width, height, x, y)
                  THEN <<Rectangle(<<x, y, x + BlockSize, y + BlockSize>>, "red", 1),
                         Rectangle(<<width + x, y, width + x + BlockSize, y + BlockSize>>,
                                   "red", 1)>>
                  ELSE <<>>)
                 \o GridLoop(diff, width, height, b + 1)

\* lines 744-751: the outline of the before region of one object diff
BeforeOverlay(d) ==
    IF d.object_before = NoRegion THEN <<>>
    ELSE LET b == d.object_before
             box == <<b[1], b[2], b[1] + b[3], b[2] + b[4]>>
         IN  IF d.diff_type = "removed" THEN <<Rectangle(box, "magenta", 2)>>
             ELSE IF d.diff_type = "moved" THEN <<Rectangle(box, "orange", 2)>>
             ELSE <<>>

\* a faulty variant that outlines the after region on the left half
AfterOverlay_left(d, width) ==
    IF d.object_after = NoRegion THEN <<>>
    ELSE LET b == d.object_after
             box == <<b[1], b[2], b[1] + b[3], b[2] + b[4]>>
         IN  IF d.diff_type = "added" THEN <<Rectangle(box, "cyan", 2)>>
             ELSE IF d.diff_type = "moved" THEN <<Rectangle(box, "orange", 2)>>
             ELSE <<>>

\* lines 753-760: the outline of the after region, on the right half
AfterOverlay(d, width) ==
    IF d.object_after = NoRegion THEN <<>>
    ELSE LET b == d.object_after
             box == <<width + b[1], b[2], width + b[1] + b[3], b[2] + b[4]>>
         IN  IF d.diff_type = "added" THEN <<Rectangle(box, "cyan", 2)>>
             ELSE IF d.diff_type = "moved" THEN <<Rectangle(box, "orange", 2)>>
             ELSE <<>>

\* lines 743-760
RECURSIVE ObjectOverlays(_, _, _)
ObjectOverlays(diffs, width, k) ==
    IF k > Len(diffs) THEN <<>>
    ELSE BeforeOverlay(diffs[k]) \o AfterOverlay(diffs[k], width)
            \o ObjectOverlays(diffs, width, k + 1)

\* lines 766-771
TextColor(diff_type) ==
    IF diff_type = "added" THEN "green"
    ELSE IF diff_type = "removed" THEN "blue"
    ELSE "yellow"

\* lines 763-776: every text diff is outlined on both halves
RECURSIVE TextOverlays(_, _, _)
TextOverlays(diffs, width, k) ==
    IF k > Len(diffs) THEN <<>>
    ELSE LET b == diffs[k].bbox
             color == TextColor(diffs[k].diff_type)
         IN  <<Rectangle(<<b[1], b[2], b[1] + b[3], b[2] + b[4]>>, color, 3),
               Rectangle(<<width + b[1], b[2], width + b[1] + b[3], b[2] + b[4]>>,
                         color, 3)>>
             \o TextOverlays(diffs, width, k + 1)

\* lines 714-776 on two images of one size: the canvas that is saved, as the two
\* pasted images and the rectangles in the order they are drawn
create_diff_visualization(n1, n2, tdiffs, odiffs) ==
    LET width == n1.width
        height == n1.height
    IN  [width |-> width * 2,
         height |-> height,
         left |-> n1,
         right |-> n2,
         rectangles |-> GridLoop(Difference(n1, n2), width, height, 0)
                            \o ObjectOverlays(odiffs, width, 1)
                            \o TextOverlays(tdiffs, width, 1)]

\* the diff lists handed to the visualisation in this model
VisObjectDiffLists ==
    {<<>>,
     <<[object_before |-> <<0, 0, 1, 1>>, object_after |-> NoRegion, diff_type |-> "removed"],
       [object_before |-> NoRegion, object_after |-> <<1, 0, 1, 1>>, diff_type |-> "added"]>>,
     <<[object_before |-> <<0, 0, 2, 1>>, object_after |-> <<1, 0, 2, 1>>, diff_type |-> "moved"],
       [object_before |-> NoRegion, object_after |-> <<0, 0, 1, 1>>, diff_type |-> "added"],
       [object_before |-> <<1, 0, 1, 1>>, object_after |-> NoRegion, diff_type |-> "removed"]>>}
VisTextDiffLists ==
    {<<>>, <<[bbox |-> <<0, 0, 1, 1>>, diff_type |-> "added"]>>}

\* Pairs of images one row high and one pixel wider than a block, so that the grid
\* has two blocks: the first image black, the second black but for one gray pixel
\* at the start of the first block, at its end, or in the second block; the gray
\* levels lie between the two thresholds, on the higher one and above it.
GrayLevels == {<<20, 20, 20>>, <<30, 30, 30>>, <<31, 31, 31>>}
GridPairs ==
    LET w == BlockSize + 1
        black == [k \in 1..w |-> <<0, 0, 0>>]
    IN  {<<Image(w, 1, black), Image(w, 1, [black EXCEPT ![k] = c])>> :
            k \in {1, BlockSize, w}, c \in GrayLevels}

---------------------------------------------------------------------------
(* calculate_overall_diff_score and categorize_diff_score *)

\* default values of pixel_weight, text_weight, object_weight
DefaultWeights == << <<3, 10>>, <<4, 10>>, <<3, 10>> >>

\* a + b + c, summed from the left
RatSum3(a, b, c) == RatLowest(RatAdd(RatLowest(RatAdd(a, b)), c))

\* a faulty variant that gives the pixel similarity the weight of the text
\* similarity and the other way round
calculate_overall_diff_score_swapped(pixel_sim, text_sim, object_sim, pixel_weight, text_weight, object_weight) ==
    RatSum3(RatMul(pixel_sim, text_weight),
            RatMul(text_sim, pixel_weight),
            RatMul(object_sim, object_weight))

\* a faulty variant that scores the object dissimilarity
calculate_overall_diff_score_complement(pixel_sim, text_sim, object_sim, pixel_weight, text_weight, object_weight) ==
    RatSum3(RatMul(pixel_sim, pixel_weight),
            RatMul(text_sim, text_weight),
            RatMul(<<object_sim[2] - object_sim[1], object_sim[2]>>, object_weight))

\* The weighted sum of lines 674-678, on exact fractions; the rounding of the
\* floating point sum is monotone and leaves 1.0 * 0.3 + 1.0 * 0.4 + 1.0 * 0.3 at 1.0.
calculate_overall_diff_score(pixel_sim, text_sim, object_sim, pixel_weight, text_weight, object_weight) ==
    RatSum3(RatMul(pixel_sim, pixel_weight),
            RatMul(text_sim, text_weight),
            RatMul(object_sim, object_weight))

\* The five categories, best first; the source returns their Japanese names:
\* "near_identical" is "ほぼ同一", "minor" is "わずかな差分", "moderate" is
\* "中程度の差分", "major" is "大きな差分", "different" is "完全に異なる".
Categories == <<"near_identical", "minor", "moderate", "major", "different">>

\* a faulty variant that gives a score on a threshold the lower category
categorize_diff_score_strict(score) ==
    IF RatGT(score, <<95, 100>>) THEN Categories[1]
    ELSE IF RatGT(score, <<85, 100>>) THEN Categories[2]
    ELSE IF RatGT(score, <<70, 100>>) THEN Categories[3]
    ELSE IF RatGT(score, <<50, 100>>) THEN Categories[4]
    ELSE Categories[5]

\* lines 683-692
categorize_diff_score(score) ==
    IF RatGE(score, <<95, 100>>) THEN Categories[1]
    ELSE IF RatGE(score, <<85, 100>>) THEN Categories[2]
    ELSE IF RatGE(score, <<70, 100>>) THEN Categories[3]
    ELSE IF RatGE(score, <<50, 100>>) THEN Categories[4]
    ELSE Categories[5]

---------------------------------------------------------------------------
(* compare_images_with_ai *)

\* A request is what one call works on: the two loaded images, the text regions
\* the OCR provider reads from each and the object regions the detector finds in
\* each, and the switches use_paddleocr and use_object_detection.
Request(i1, i2, t1, t2, o1, o2, ocr, det) ==
    [img1 |-> i1, img2 |-> i2, text1 |-> t1, text2 |-> t2,
     objects1 |-> o1, objects2 |-> o2,
     use_paddleocr |-> ocr, use_object_detection |-> det]

\* lines 803-810: MockOCRProvider, chosen by use_paddleocr=False, returns [] for
\* every image
ExtractText(req) ==
    IF req.use_paddleocr
    THEN [regions1 |-> req.text1, regions2 |-> req.text2]
    ELSE [regions1 |-> <<>>, regions2 |-> <<>>]

\* a faulty variant whose object similarity is 0.0 when detection is switched off
ObjectStage_zero_default(req) ==
    IF req.use_object_detection
    THEN [object_regions1 |-> req.objects1,
          object_regions2 |-> req.objects2,
          object_diffs |-> detect_object_diffs(req.objects1, req.objects2).diffs,
          object_similarity |-> calculate_object_similarity(req.objects1, req.objects2).sim]
    ELSE [object_regions1 |-> <<>>, object_regions2 |-> <<>>,
          object_diffs |-> <<>>, object_similarity |-> Zero]

\* a faulty variant that, when detection is switched off, keeps the object
\* similarity of the comparison before
ObjectStage_stale(req) ==
    IF req.use_object_detection
    THEN [object_regions1 |-> req.objects1,
          object_regions2 |-> req.objects2,
          object_diffs |-> detect_object_diffs(req.objects1, req.objects2).diffs,
          object_similarity |-> calculate_object_similarity(req.objects1, req.objects2).sim]
    ELSE [object_regions1 |-> <<>>, object_regions2 |-> <<>>,
          object_diffs |-> <<>>,
          object_similarity |-> IF clock = 0 THEN One ELSE result.object_similarity]

\* lines 817-833
ObjectStage(req) ==
    IF req.use_object_detection
    THEN [object_regions1 |-> req.objects1,
          object_regions2 |-> req.objects2,
          object_diffs |-> detect_object_diffs(req.objects1, req.objects2).diffs,
          object_similarity |-> calculate_object_similarity(req.objects1, req.objects2).sim]
    ELSE [object_regions1 |-> <<>>, object_regions2 |-> <<>>,
          object_diffs |-> <<>>, object_similarity |-> One]

\* lines 799-900 for a request whose images, brought to one size, are the pair n,
\* at the time now: the ComparisonResult (image1 and image2 repeat the arguments
\* and are left out)
compare_images_with_ai(req, n, now) ==
    LET ocr == ExtractText(req)
        text_diffs_ == detect_text_diffs(ocr.regions1, ocr.regions2)
        text_similarity_ == calculate_text_similarity(ocr.regions1, ocr.regions2)
        obj == ObjectStage(req)
        pixel == calculate_pixel_diff(n[1], n[2])
        overall_ == calculate_overall_diff_score(
                             pixel.similarity, text_similarity_, obj.object_similarity,
                             DefaultWeights[1], DefaultWeights[2], DefaultWeights[3])
    IN  [timestamp |-> now,
         pixel_similarity |-> pixel.similarity,
         text_similarity |-> text_similarity_,
         object_similarity |-> obj.object_similarity,
         text_regions_before |-> ocr.regions1,
         text_regions_after |-> ocr.regions2,
         text_diffs |-> text_diffs_,
         object_regions_before |-> obj.object_regions1,
         object_regions_after |-> obj.object_regions2,
         object_diffs |-> obj.object_diffs,
         pixel_diff_stats |-> pixel.stats,
         overall_diff_score |-> overall_]

\* largest number of comparisons in one run
MaxInvocations == 3

\* Inputs of the comparison under test. The two images have one size and at least
\* one pixel: loaded image files have pixels, and the content a resampling filter
\* would give to images of different sizes is left open by Resized.
CmpPixels == {<<0, 0, 0>>, <<10, 10, 10>>}
CmpImages(w) == {Image(w, 1, d) : d \in [1..w -> CmpPixels]}
CmpImagePairs ==
    UNION {UNION {{<<a, a>>, <<a, Image(w, 1, [k \in 1..w |-> <<255, 0, 0>>])>>} :
                  a \in CmpImages(w)} : w \in 1..MaxImageWidth}
CmpTextLists == SeqsUpTo({<<"a">>, <<"b">>}, 1)
Requests ==
    {Request(p[1], p[2], t1, t2, o1, o2, ocr, det) :
        p \in CmpImagePairs, t1 \in CmpTextLists, t2 \in CmpTextLists,
        o1 \in {<<>>, << <<0, 0, 2, 1>> >>}, o2 \in {<<>>, << <<1, 0, 2, 1>> >>},
        ocr \in BOOLEAN, det \in BOOLEAN}

\* the comparisons that run before and between: one of two equal pictures, one
\* of pictures that differ in pixels, text and objects
OtherRequests ==
    {Request(Image(1, 1, << <<0, 0, 0>> >>), Image(1, 1, << <<0, 0, 0>> >>),
             <<>>, <<>>, <<>>, <<>>, TRUE, TRUE),
     Request(Image(1, 1, << <<0, 0, 0>> >>), Image(1, 1, << <<255, 0, 0>> >>),
             << <<"a">> >>, << <<"b">> >>, << <<0, 0, 2, 1>> >>, << <<1, 0, 2, 1>> >>,
             TRUE, TRUE)}

---------------------------------------------------------------------------
(* The command line programs: compare_images.py, ai_compare.py, glm_diff.py *)

\* float('nan'), which argparse's type=float accepts; every ordered comparison
\* with it is false
NaN == <<0, 0>>
IsNaN(x) == x[2] = 0
FloatLT(a, b) == ~IsNaN(a) /\ ~IsNaN(b) /\ a[1] * b[2] < b[1] * a[2]
FloatGT(a, b) == FloatLT(b, a)

\* choices of --hash-algorithm, the keys of compute_hashes
HashFamilies == {"ahash", "phash", "dhash", "whash"}

\* values of --hash-algorithm and --threshold tried
HashArguments == {"phash", "xhash"}
ThresholdArguments == {<<0 - 1, 2>>, Zero, <<1, 2>>, One, <<3, 2>>, NaN}

\* compare_images.py validate_args: (exit code, error message)
validate_args(a) ==
    IF ~a.image1 \/ ~a.image2
    THEN [exit_code |-> 1, error_msg |-> "two image paths are required"]
    ELSE IF FloatLT(a.threshold, Zero) \/ FloatGT(a.threshold, One)
    THEN [exit_code |-> 1, error_msg |-> "--threshold must be between 0 and 1"]
    ELSE [exit_code |-> 0, error_msg |-> ""]

\* compare_images.py compare_images: the exception it ends with ("" if none), the
\* images it loaded and the hashes it computed before; the hash family is looked
\* up after all hashes of both images are computed, and the threshold enters the
\* judgment of line 443 only
compare_images(hash_algorithm, loadable1, loadable2) ==
    IF ~loadable1
    THEN [raised |-> "FileNotFoundError", loads |-> 0, hashes |-> 0]
    ELSE IF ~loadable2
    THEN [raised |-> "FileNotFoundError", loads |-> 1, hashes |-> 0]
    ELSE IF hash_algorithm \notin HashFamilies
    THEN [raised |-> "KeyError", loads |-> 2, hashes |-> 2 * Cardinality(HashFamilies)]
    ELSE [raised |-> "", loads |-> 2, hashes |-> 2 * Cardinality(HashFamilies)]

---------------------------------------------------------------------------
(* Runs: one unit of the engine per run *)

IdleIoU == bbox1 = <<0, 0, 0, 0>> /\ bbox2 = <<0, 0, 0, 0>> /\ iou = Zero

ObjResultsEmpty ==
    /\ object_diffs = <<>>
    /\ accepted = <<>>
    /\ swapped_diffs = <<>>
    /\ swapped_accepted = <<>>
    /\ matched_pairs = <<>>
    /\ object_similarity = Zero

IdleObj == regions1 = <<>> /\ regions2 = <<>> /\ ObjResultsEmpty

IdleText ==
    /\ text_regions1 = <<>>
    /\ text_regions2 = <<>>
    /\ text_diffs = <<>>
    /\ text_similarity = Zero

IdlePix ==
    /\ img1 = Image(0, 0, <<>>)
    /\ img2 = Image(0, 0, <<>>)
    /\ pixel_similarity = Zero
    /\ pixel_stats = <<>>
    /\ normalized = <<>>
    /\ visualization = <<>>
    /\ vis_diffs = <<>>

IdleScore == score_args = <<>> /\ overall_score = Zero /\ category = ""

IdleCmp ==
    /\ request = <<>>
    /\ result = <<>>
    /\ clock = 0
    /\ first_result = <<>>
    /\ second_result = <<>>

IdleCli ==
    /\ program = ""
    /\ args = <<>>
    /\ exit_code = -1
    /\ errors = <<>>
    /\ images_loaded = 0
    /\ hashes_computed = 0
    /\ written = {}
    /\ report_file = "absent"
    /\ analysis_error = FALSE

\* two arbitrary rectangles, nothing computed yet
IdleOpt == options = <<>> /\ validation = <<>>

\* the snapshot tool does not run
IdleFb == fb_call = <<>> /\ fallback_models = <<>> /\ attempts = <<>> /\ fb_result = <<>>

IdleBatch ==
    /\ batch_args = <<>> /\ urls = <<>> /\ url_index = 0
    /\ success_count = 0 /\ error_count = 0 /\ wall_clock = 0
    /\ attempted = <<>> /\ saved_files = <<>> /\ batch_exit = 0
    /\ batch_raised = FALSE

IdleStab ==
    /\ last_height = 0 /\ stable_count = 0 /\ iteration = 0 /\ samples = 0
    /\ recent = <<>>

IdleSnap == IdleOpt /\ IdleFb /\ IdleBatch /\ IdleStab

InitIoU ==
    /\ unit = "iou"
    /\ pc = "start"
    /\ bbox1 \in Rects
    /\ bbox2 \in Rects
    /\ iou = Zero
    /\ IdleObj /\ IdleText /\ IdlePix /\ IdleScore /\ IdleCmp /\ IdleCli /\ IdleSnap

\* two arbitrary object region lists of rectangles in a row, or one arbitrary
\* rectangle on each side; nothing computed yet
InitObj ==
    /\ unit = "obj"
    /\ pc = "start"
    /\ \/ \E n1 \in 0..MaxRegions :
            \E n2 \in 0..(MaxRegions - n1) :
               /\ regions1 \in [1..n1 -> RowRects]
               /\ regions2 \in [1..n2 -> RowRects]
       \/ /\ regions1 \in [1..1 -> Rects]
          /\ regions2 \in [1..1 -> Rects]
       \/ /\ regions1 \in [1..1 -> ThresholdRects]
          /\ regions2 \in [1..1 -> ThresholdRects]
       \/ \E n \in 0..(MaxRegions - 1) :
             /\ regions1 \in [1..n -> RowRects]
             /\ regions2 = regions1
    /\ ObjResultsEmpty
    /\ IdleIoU /\ IdleText /\ IdlePix /\ IdleScore /\ IdleCmp /\ IdleCli /\ IdleSnap

\* two arbitrary text region lists of short texts, or one arbitrary longer text on
\* each side; nothing computed yet
InitText ==
    /\ unit = "text"
    /\ pc = "start"
    /\ \/ \E n1 \in 0..MaxTexts :
            \E n2 \in 0..(MaxTexts - n1) :
               /\ text_regions1 \in [1..n1 -> ShortTexts]
               /\ text_regions2 \in [1..n2 -> ShortTexts]
       \/ /\ text_regions1 \in [1..1 -> LongTexts]
          /\ text_regions2 \in [1..1 -> LongTexts]
    /\ text_diffs = <<>>
    /\ text_similarity = Zero
    /\ IdleIoU /\ IdleObj /\ IdlePix /\ IdleScore /\ IdleCmp /\ IdleCli /\ IdleSnap

\* two arbitrary images, nothing computed yet
InitPix ==
    /\ unit = "pix"
    /\ pc = "start"
    /\ \/ \E w1, w2 \in 0..MaxImageWidth :
            \E h1, h2 \in ImageHeights :
               /\ img1 \in ImagesOfSize(w1, h1)
               /\ img2 \in ImagesOfSize(w2, h2)
       \/ \E p \in GridPairs : img1 = p[1] /\ img2 = p[2]
    /\ pixel_similarity = Zero
    /\ pixel_stats = <<>>
    /\ normalized = <<>>
    /\ visualization = <<>>
    /\ vis_diffs = <<>>
    /\ IdleIoU /\ IdleObj /\ IdleText /\ IdleScore /\ IdleCmp /\ IdleCli /\ IdleSnap

\* iou = calculate_bbox_iou(bbox1, bbox2)
CalculateBboxIou ==
    /\ unit = "iou"
    /\ pc = "start"
    /\ iou' = calculate_bbox_iou(bbox1, bbox2)
    /\ pc' = "done"
    /\ UNCHANGED <<unit, snapVars, scoreVars, cmpVars, cliVars, bbox1, bbox2, objVars, textVars, pixVars>>

\* object_diffs = detect_object_diffs(object_regions1, object_regions2)
DetectObjectDiffs ==
    /\ unit = "obj"
    /\ pc = "start"
    /\ LET r == detect_object_diffs(regions1, regions2)
       IN  object_diffs' = r.diffs /\ accepted' = r.accepted
    /\ pc' = "diffed"
    /\ UNCHANGED <<unit, snapVars, scoreVars, cmpVars, cliVars, iouVars, textVars, pixVars, regions1, regions2,
                   swapped_diffs, swapped_accepted, matched_pairs, object_similarity>>

\* object_similarity = calculate_object_similarity(object_regions1, object_regions2)
CalculateObjectSimilarity ==
    /\ unit = "obj"
    /\ pc = "diffed"
    /\ LET r == calculate_object_similarity(regions1, regions2)
       IN  object_similarity' = r.sim /\ matched_pairs' = r.matched_pairs
    /\ pc' = "scored"
    /\ UNCHANGED <<unit, snapVars, scoreVars, cmpVars, cliVars, iouVars, textVars, pixVars, regions1, regions2,
                   object_diffs, accepted, swapped_diffs, swapped_accepted>>

\* the same two lists with the roles exchanged: detect_object_diffs(regions2, regions1)
DetectObjectDiffsSwapped ==
    /\ unit = "obj"
    /\ pc = "scored"
    /\ LET r == detect_object_diffs(regions2, regions1)
       IN  swapped_diffs' = r.diffs /\ swapped_accepted' = r.accepted
    /\ pc' = "done"
    /\ UNCHANGED <<unit, snapVars, scoreVars, cmpVars, cliVars, iouVars, textVars, pixVars, regions1, regions2,
                   object_diffs, accepted, matched_pairs, object_similarity>>

\* text_diffs = detect_text_diffs(regions1, regions2)
DetectTextDiffs ==
    /\ unit = "text"
    /\ pc = "start"
    /\ text_diffs' = detect_text_diffs(text_regions1, text_regions2)
    /\ pc' = "diffed"
    /\ UNCHANGED <<unit, snapVars, scoreVars, cmpVars, cliVars, iouVars, objVars, pixVars, text_regions1, text_regions2,
                   text_similarity>>

\* text_similarity = calculate_text_similarity(regions1, regions2)
CalculateTextSimilarity ==
    /\ unit = "text"
    /\ pc = "diffed"
    /\ text_similarity' = calculate_text_similarity(text_regions1, text_regions2)
    /\ pc' = "done"
    /\ UNCHANGED <<unit, snapVars, scoreVars, cmpVars, cliVars, iouVars, objVars, pixVars, text_regions1, text_regions2,
                   text_diffs>>

\* pixel_similarity, pixel_stats = calculate_pixel_diff(img1, img2); an exception
\* leaves the caller without a result
CalculatePixelDiff ==
    /\ unit = "pix"
    /\ pc = "start"
    /\ \/ /\ NormalizeRaises(img1, img2)
          /\ pc' = "raised"
          /\ UNCHANGED <<pixel_similarity, pixel_stats, normalized>>
       \/ /\ ~NormalizeRaises(img1, img2)
          /\ \E n \in NormalizedPairs(img1, img2) :
                LET r == calculate_pixel_diff(n[1], n[2])
                IN  /\ normalized' = n
                    /\ IF r.raised
                       THEN pc' = "raised" /\ UNCHANGED <<pixel_similarity, pixel_stats>>
                       ELSE /\ pc' = "done"
                            /\ pixel_similarity' = r.similarity
                            /\ pixel_stats' = r.stats
    /\ UNCHANGED <<unit, snapVars, scoreVars, cmpVars, cliVars, iouVars, objVars, textVars, img1, img2, visualization,
                   vis_diffs>>

\* pixel_stats = calculate_pixel_stats(img1, img2) of compare_images.py
CalculatePixelStats ==
    /\ unit = "pix"
    /\ pc = "start"
    /\ \/ /\ NormalizeRaises(img1, img2)
          /\ pc' = "stats_raised"
          /\ UNCHANGED <<pixel_stats, normalized>>
       \/ /\ ~NormalizeRaises(img1, img2)
          /\ \E n \in resize_to_match(img1, img2) :
                LET r == calculate_pixel_stats(n[1], n[2])
                IN  /\ normalized' = n
                    /\ IF r.raised
                       THEN pc' = "stats_raised" /\ UNCHANGED pixel_stats
                       ELSE pc' = "stats_done" /\ pixel_stats' = r.stats
    /\ UNCHANGED <<unit, snapVars, scoreVars, cmpVars, cliVars, iouVars, objVars, textVars, img1, img2, pixel_similarity,
                   visualization, vis_diffs>>

\* create_diff_visualization(img1, img2, text_diffs, object_diffs, output_path);
\* whether a canvas without pixels can be saved is left open
CreateDiffVisualization ==
    /\ unit = "pix"
    /\ pc = "start"
    /\ \/ /\ NormalizeRaises(img1, img2)
          /\ pc' = "visualize_raised"
          /\ UNCHANGED <<normalized, visualization, vis_diffs>>
       \/ /\ ~NormalizeRaises(img1, img2)
          /\ \E n \in NormalizedPairs(img1, img2) :
             \E tdiffs \in VisTextDiffLists :
             \E odiffs \in VisObjectDiffLists :
                /\ normalized' = n
                /\ vis_diffs' = [text_diffs |-> tdiffs, object_diffs |-> odiffs]
                /\ \/ /\ visualization' =
                            create_diff_visualization(n[1], n[2], tdiffs, odiffs)
                      /\ pc' = "visualized"
                   \/ /\ n[1].width * n[1].height = 0
                      /\ visualization' = visualization
                      /\ pc' = "visualize_raised"
    /\ UNCHANGED <<unit, snapVars, scoreVars, cmpVars, cliVars, iouVars, objVars, textVars, img1, img2, pixel_similarity,
                   pixel_stats>>

---------------------------------------------------------------------------
(* Runs of the score, of one comparison after another, and of the programs *)

\* number of steps between the similarities 0 and 1 handed to the score
ScoreSteps == 4
\* number of steps between the scores 0 and 1 handed to the categories
ScoreScale == 100

\* similarities from just below 0 to just above 1
ScoreSamples == {<<k, ScoreSteps>> : k \in (0 - 1)..(ScoreSteps + 1)}
CategoryScores == {<<k, ScoreScale>> : k \in (0 - 1)..(ScoreScale + 1)}
\* the default weights, all weight on the pixels, weights that sum to 3/2, and a
\* negative object weight
WeightChoices ==
    {DefaultWeights,
     <<One, Zero, Zero>>,
     << <<1, 2>>, <<1, 2>>, <<1, 2>> >>,
     << <<3, 10>>, <<4, 10>>, <<0 - 3, 10>> >>}

\* three arbitrary similarities and one of the weight triples, no score yet
InitScore ==
    /\ unit = "score"
    /\ pc = "start"
    /\ \E p, t, o \in ScoreSamples :
       \E w \in WeightChoices :
          score_args = [pixel_similarity |-> p, text_similarity |-> t,
                        object_similarity |-> o, pixel_weight |-> w[1],
                        text_weight |-> w[2], object_weight |-> w[3]]
    /\ overall_score = Zero
    /\ category = ""
    /\ IdleIoU /\ IdleObj /\ IdleText /\ IdlePix /\ IdleCmp /\ IdleCli /\ IdleSnap

\* an arbitrary score, no category yet
InitCat ==
    /\ unit = "cat"
    /\ pc = "start"
    /\ score_args = <<>>
    /\ overall_score \in CategoryScores
    /\ category = ""
    /\ IdleIoU /\ IdleObj /\ IdleText /\ IdlePix /\ IdleCmp /\ IdleCli /\ IdleSnap

\* one comparison to run twice, nothing run yet
InitCmp ==
    /\ unit = "cmp"
    /\ pc = "start"
    /\ request \in Requests
    /\ result = <<>>
    /\ clock = 0
    /\ first_result = <<>>
    /\ second_result = <<>>
    /\ IdleIoU /\ IdleObj /\ IdleText /\ IdlePix /\ IdleScore /\ IdleCli /\ IdleSnap

\* one of the three programs about to parse its command line, or
\* compare_images() about to be called by an importing program; the report file
\* may be there from an earlier run. Arguments a program does not have hold one
\* fixed value; no_diff stands for --no-diff, --no-visualization and the absence
\* of --side-by-side.
InitCli ==
    /\ unit = "cli"
    /\ \/ /\ program = "compare_images"
          /\ pc = "start"
          /\ args \in {a \in [entry : {"main"}, image1 : BOOLEAN, image2 : BOOLEAN,
                             hash_algorithm : HashArguments,
                             threshold : ThresholdArguments,
                             no_diff : BOOLEAN, json : BOOLEAN, api_key : {TRUE}] :
                          a.image2 => a.image1}
          /\ report_file \in {"absent", "complete"}
       \/ /\ program = "compare_images"
          /\ pc = "call"
          /\ args \in [entry : {"compare_images"}, image1 : {TRUE}, image2 : {TRUE},
                      hash_algorithm : HashArguments, threshold : ThresholdArguments,
                      no_diff : {TRUE}, json : {FALSE}, api_key : {TRUE}]
          /\ report_file = "absent"
       \/ /\ program = "ai_compare"
          /\ pc = "start"
          /\ args \in [entry : {"main"}, image1 : {TRUE}, image2 : {TRUE},
                      hash_algorithm : {"phash"}, threshold : {One},
                      no_diff : BOOLEAN, json : BOOLEAN, api_key : {TRUE}]
          /\ report_file \in {"absent", "complete"}
       \/ /\ program = "glm_diff"
          /\ pc = "start"
          /\ args \in [entry : {"main"}, image1 : {TRUE}, image2 : {TRUE},
                      hash_algorithm : {"phash"}, threshold : {One},
                      no_diff : BOOLEAN, json : BOOLEAN, api_key : BOOLEAN]
          /\ report_file \in {"absent", "complete"}
    /\ exit_code = -1
    /\ errors = <<>>
    /\ images_loaded = 0
    /\ hashes_computed = 0
    /\ written = {}
    /\ analysis_error = FALSE
    /\ IdleIoU /\ IdleObj /\ IdleText /\ IdlePix /\ IdleScore /\ IdleCmp /\ IdleSnap

\* overall_score = calculate_overall_diff_score(...)
CalculateOverallDiffScore ==
    /\ unit = "score"
    /\ pc = "start"
    /\ overall_score' = calculate_overall_diff_score(
                            score_args.pixel_similarity, score_args.text_similarity,
                            score_args.object_similarity, score_args.pixel_weight,
                            score_args.text_weight, score_args.object_weight)
    /\ pc' = "scored"
    /\ UNCHANGED <<unit, snapVars, iouVars, objVars, textVars, pixVars, cmpVars, cliVars,
                   score_args, category>>

\* category = categorize_diff_score(overall_score), of a computed score or of the
\* score handed in
CategorizeDiffScore ==
    /\ \/ unit = "score" /\ pc = "scored"
       \/ unit = "cat" /\ pc = "start"
    /\ category' = categorize_diff_score(overall_score)
    /\ pc' = "done"
    /\ UNCHANGED <<unit, snapVars, iouVars, objVars, textVars, pixVars, cmpVars, cliVars,
                   score_args, overall_score>>

\* one call of compare_images_with_ai on the request r at the present time; the
\* temporary directory it creates is removed again in its finally clause
Invoke(r) ==
    /\ clock < MaxInvocations
    /\ \E n \in NormalizedPairs(r.img1, r.img2) :
          result' = compare_images_with_ai(r, n, clock)
    /\ clock' = clock + 1

\* the comparison under test
CompareImagesWithAi ==
    /\ unit = "cmp"
    /\ pc = "start"
    /\ Invoke(request)
    /\ first_result' = result'
    /\ pc' = "compared"
    /\ UNCHANGED <<unit, snapVars, iouVars, objVars, textVars, pixVars, scoreVars, cliVars,
                   request, second_result>>

\* the same comparison once more
CompareAgain ==
    /\ unit = "cmp"
    /\ pc = "compared"
    /\ Invoke(request)
    /\ second_result' = result'
    /\ pc' = "repeated"
    /\ UNCHANGED <<unit, snapVars, iouVars, objVars, textVars, pixVars, scoreVars, cliVars,
                   request, first_result>>

\* another comparison, before the one under test or between its two runs
CompareOtherImages ==
    /\ unit = "cmp"
    /\ pc \in {"start", "compared"}
    /\ \E q \in OtherRequests : Invoke(q)
    /\ UNCHANGED <<unit, snapVars, pc, iouVars, objVars, textVars, pixVars, scoreVars, cliVars,
                   request, first_result, second_result>>

\* the program prints msg and ends with the exit code
Fails(code, msg) ==
    /\ exit_code' = code
    /\ errors' = Append(errors, msg)
    /\ pc' = "exited"

\* the program goes on to its next step
Continues(next) ==
    /\ pc' = next
    /\ UNCHANGED <<exit_code, errors>>

\* parse_arguments() of the three programs: argparse ends the program with status
\* 2 on a --hash-algorithm outside the choices
ParseArguments ==
    /\ unit = "cli"
    /\ pc = "start"
    /\ IF program = "compare_images" /\ args.hash_algorithm \notin HashFamilies
       THEN Fails(2, "argument --hash-algorithm: invalid choice")
       ELSE Continues("parsed")
    /\ UNCHANGED <<unit, snapVars, iouVars, objVars, textVars, pixVars, scoreVars, cmpVars,
                   program, args, images_loaded, hashes_computed, written,
                   report_file, analysis_error>>

\* compare_images.py main lines 662-665
ValidateArgs ==
    /\ unit = "cli"
    /\ program = "compare_images"
    /\ pc = "parsed"
    /\ LET r == validate_args(args)
       IN  IF r.exit_code # 0
           THEN Fails(r.exit_code, r.error_msg)
           ELSE Continues("validated")
    /\ UNCHANGED <<unit, snapVars, iouVars, objVars, textVars, pixVars, scoreVars, cmpVars,
                   program, args, images_loaded, hashes_computed, written,
                   report_file, analysis_error>>

\* glm_diff.py main lines 463-470
CheckApiKey ==
    /\ unit = "cli"
    /\ program = "glm_diff"
    /\ pc = "parsed"
    /\ IF ~args.api_key
       THEN Fails(1, "no API key")
       ELSE Continues("validated")
    /\ UNCHANGED <<unit, snapVars, iouVars, objVars, textVars, pixVars, scoreVars, cmpVars,
                   program, args, images_loaded, hashes_computed, written,
                   report_file, analysis_error>>

\* compare_images(...): from main (lines 688-693) after validation, or called
\* directly by an importing program; whether the two files can be loaded is the
\* environment's choice
CompareImages ==
    /\ unit = "cli"
    /\ program = "compare_images"
    /\ pc = IF args.entry = "main" THEN "validated" ELSE "call"
    /\ \E loadable1, loadable2 \in BOOLEAN :
          LET r == compare_images(args.hash_algorithm, loadable1, loadable2)
          IN  /\ images_loaded' = images_loaded + r.loads
              /\ hashes_computed' = hashes_computed + r.hashes
              /\ IF r.raised # "" THEN Fails(1, r.raised)
                 ELSE IF args.entry = "main" THEN Continues("compared")
                 ELSE exit_code' = 0 /\ pc' = "exited" /\ UNCHANGED errors
    /\ UNCHANGED <<unit, snapVars, iouVars, objVars, textVars, pixVars, scoreVars, cmpVars,
                   program, args, written, report_file, analysis_error>>

\* compare_images.py main lines 696-718: unless --no-diff, both images are loaded
\* again and the diff image is saved
CreateDiffImage ==
    /\ unit = "cli"
    /\ program = "compare_images"
    /\ pc = "compared"
    /\ IF args.no_diff
       THEN Continues("diffed") /\ UNCHANGED <<images_loaded, written>>
       ELSE \/ /\ images_loaded' = images_loaded + 2
               /\ written' = written \cup {"diff"}
               /\ Continues("diffed")
            \/ /\ Fails(1, "IOError")
               /\ UNCHANGED <<images_loaded, written>>
    /\ UNCHANGED <<unit, snapVars, iouVars, objVars, textVars, pixVars, scoreVars, cmpVars,
                   program, args, hashes_computed, report_file, analysis_error>>

\* ai_compare.py main lines 1152-1159: compare_images_with_ai returns or raises
CompareWithAi ==
    /\ unit = "cli"
    /\ program = "ai_compare"
    /\ pc = "parsed"
    /\ \/ /\ images_loaded' = images_loaded + 2
          /\ Continues("compared")
       \/ /\ Fails(1, "FileNotFoundError")
          /\ UNCHANGED images_loaded
    /\ UNCHANGED <<unit, snapVars, iouVars, objVars, textVars, pixVars, scoreVars, cmpVars,
                   program, args, hashes_computed, written, report_file,
                   analysis_error>>

\* ai_compare.py main lines 1162-1207: unless --no-visualization, both images are
\* loaded again and create_diff_visualization saves the canvas
CreateVisualization ==
    /\ unit = "cli"
    /\ program = "ai_compare"
    /\ pc = "compared"
    /\ IF args.no_diff
       THEN Continues("diffed") /\ UNCHANGED <<images_loaded, written>>
       ELSE \/ /\ images_loaded' = images_loaded + 2
               /\ written' = written \cup {"diff"}
               /\ Continues("diffed")
            \/ /\ Fails(1, "IOError")
               /\ UNCHANGED <<images_loaded, written>>
    /\ UNCHANGED <<unit, snapVars, iouVars, objVars, textVars, pixVars, scoreVars, cmpVars,
                   program, args, hashes_computed, report_file, analysis_error>>

\* glm_diff.py main lines 484-493: both paths are resolved and the model is asked;
\* a model failure comes back as an analysis holding "error", not as an exception
AnalyzeWithGlm ==
    /\ unit = "cli"
    /\ program = "glm_diff"
    /\ pc = "validated"
    /\ \/ /\ images_loaded' = images_loaded + 2
          /\ analysis_error' \in BOOLEAN
          /\ Continues("compared")
       \/ /\ Fails(1, "FileNotFoundError")
          /\ UNCHANGED <<images_loaded, analysis_error>>
    /\ UNCHANGED <<unit, snapVars, iouVars, objVars, textVars, pixVars, scoreVars, cmpVars,
                   program, args, hashes_computed, written, report_file>>

\* glm_diff.py main lines 496-515: with --side-by-side the pasted pair is saved
CreateSideBySide ==
    /\ unit = "cli"
    /\ program = "glm_diff"
    /\ pc = "compared"
    /\ IF args.no_diff
       THEN Continues("diffed") /\ UNCHANGED written
       ELSE \/ /\ written' = written \cup {"diff"}
               /\ Continues("diffed")
            \/ /\ Fails(1, "IOError")
               /\ UNCHANGED written
    /\ UNCHANGED <<unit, snapVars, iouVars, objVars, textVars, pixVars, scoreVars, cmpVars,
                   program, args, images_loaded, hashes_computed, report_file,
                   analysis_error>>

\* open(output_path, 'w') of the three programs: the report text is complete in
\* memory; opening creates the file, or empties the one that is there
OpenReport ==
    /\ unit = "cli"
    /\ pc = "diffed"
    /\ \/ /\ report_file' = "empty"
          /\ written' = written \cup {"report"}
          /\ Continues("report_open")
       \/ /\ Fails(1, "IOError")
          /\ UNCHANGED <<report_file, written>>
    /\ UNCHANGED <<unit, snapVars, iouVars, objVars, textVars, pixVars, scoreVars, cmpVars,
                   program, args, images_loaded, hashes_computed, analysis_error>>

\* f.write(report) and the close at the end of the with block: the text reaches
\* the file, or the write fails and the exception handler of main returns 1
\* without touching the file
WriteReport ==
    /\ unit = "cli"
    /\ pc = "report_open"
    /\ \/ /\ report_file' = "complete"
          /\ Continues("reported")
       \/ /\ report_file' \in {"empty", "partial"}
          /\ Fails(1, "IOError")
    /\ UNCHANGED <<unit, snapVars, iouVars, objVars, textVars, pixVars, scoreVars, cmpVars,
                   program, args, images_loaded, hashes_computed, written,
                   analysis_error>>

\* the rest of main: the JSON file with --json, the summary, and the return; only
\* glm_diff returns 1 here, when the analysis holds "error"
WriteJson ==
    /\ unit = "cli"
    /\ pc = "reported"
    /\ \/ /\ written' = IF args.json THEN written \cup {"json"} ELSE written
          /\ IF program = "glm_diff" /\ analysis_error
             THEN Fails(1, "analysis error")
             ELSE exit_code' = 0 /\ pc' = "exited" /\ UNCHANGED errors
       \/ /\ args.json
          /\ written' = written \cup {"json"}
          /\ Fails(1, "IOError")
    /\ UNCHANGED <<unit, snapVars, iouVars, objVars, textVars, pixVars, scoreVars, cmpVars,
                   program, args, images_loaded, hashes_computed, report_file,
                   analysis_error>>

---------------------------------------------------------------------------
(* The snapshot tool: validate_options *)

\* largest absolute value of an option tried
MaxOption == 2
OptionValues == (0 - MaxOption)..MaxOption

\* --wait absent (None): wait_given is FALSE and wait is 0
OptionRecords ==
    [width : OptionValues, height : OptionValues, wait_given : {TRUE}, wait : OptionValues]
        \cup [width : OptionValues, height : OptionValues, wait_given : {FALSE}, wait : {0}]

\* a faulty variant that also rejects --wait 0
validate_options_zero_wait(a) ==
    IF a.width <= 0 THEN [exit_code |-> 1, error_msg |-> "--width"]
    ELSE IF a.height <= 0 THEN [exit_code |-> 1, error_msg |-> "--height"]
    ELSE IF a.wait_given /\ a.wait <= 0 THEN [exit_code |-> 1, error_msg |-> "--wait"]
    ELSE [exit_code |-> 0, error_msg |-> "None"]

\* (exit code, error message); the message is kept as the option it names, the
\* absent message None as "None"
validate_options(a) ==
    IF a.width <= 0 THEN [exit_code |-> 1, error_msg |-> "--width"]
    ELSE IF a.height <= 0 THEN [exit_code |-> 1, error_msg |-> "--height"]
    ELSE IF a.wait_given /\ a.wait < 0 THEN [exit_code |-> 1, error_msg |-> "--wait"]
    ELSE [exit_code |-> 0, error_msg |-> "None"]

\* parsed options, not validated yet
InitOpt ==
    /\ unit = "opt"
    /\ pc = "start"
    /\ options \in OptionRecords
    /\ validation = <<>>
    /\ IdleIoU /\ IdleObj /\ IdleText /\ IdlePix /\ IdleScore /\ IdleCmp /\ IdleCli
    /\ IdleFb /\ IdleBatch /\ IdleStab

\* exit_code, error_msg = validate_options(args)
ValidateOptions ==
    /\ unit = "opt"
    /\ pc = "start"
    /\ validation' = validate_options(options)
    /\ pc' = "done"
    /\ UNCHANGED <<unit, iouVars, objVars, textVars, pixVars, scoreVars, cmpVars,
                   cliVars, fbVars, batchVars, stabVars, options>>

---------------------------------------------------------------------------
(* The snapshot tool: the model fallback of perform_ocr and analyze_with_glm4v *)

\* the functions that hold the loop
FallbackFunctions ==
    {"websnapshot.ocr.perform_ocr", "web_snapshot.perform_ocr",
     "glm_diff.analyze_with_glm4v"}
\* values of the model argument tried
ModelArguments == {"glm-4v", "glm-4v-plus", "glm-4.6v", "custom"}
\* str(e) of a failed attempt: two messages of a missing model ("no such model"
\* stands for the Chinese text the source looks for), a network failure and an
\* answer that is not JSON
ErrorMessages == {"error 1211", "no such model", "timeout", "invalid JSON"}
Outcomes == {"ok"} \cup ErrorMessages

\* '1211' in error_msg or the Chinese "model does not exist" in error_msg
IsModelNotFound(error_msg) == error_msg \in {"error 1211", "no such model"}

\* a faulty variant that extends the list for every model
FallbackList_always(model) == <<model, "glm-4v-plus", "glm-4.6v", "glm-4.5v">>

\* fallback_models = [model], extended for "glm-4v"
FallbackList(model) ==
    IF model = "glm-4v"
    THEN <<model, "glm-4v-plus", "glm-4.6v", "glm-4.5v">>
    ELSE <<model>>

\* a faulty variant that goes on to the next model after every failure
AfterAttempt_retry(outcome) ==
    IF outcome = "ok" THEN "return"
    ELSE "continue"

\* what the loop body does after the attempt: return result, continue, or break
AfterAttempt(outcome) ==
    IF outcome = "ok" THEN "return"
    ELSE IF IsModelNotFound(outcome) THEN "continue"
    ELSE "break"

\* the function was called; nothing tried yet
InitFb ==
    /\ unit = "fb"
    /\ pc = "start"
    /\ fb_call \in [function : FallbackFunctions, model : ModelArguments]
    /\ fallback_models = <<>>
    /\ attempts = <<>>
    /\ fb_result = <<>>
    /\ IdleIoU /\ IdleObj /\ IdleText /\ IdlePix /\ IdleScore /\ IdleCmp /\ IdleCli
    /\ IdleOpt /\ IdleBatch /\ IdleStab

\* the list of models is built
BuildFallbackList ==
    /\ unit = "fb"
    /\ pc = "start"
    /\ fallback_models' = FallbackList(fb_call.model)
    /\ pc' = "loop"
    /\ UNCHANGED <<unit, iouVars, objVars, textVars, pixVars, scoreVars, cmpVars,
                   cliVars, optVars, batchVars, stabVars, fb_call, attempts, fb_result>>

\* one pass of `for try_model in fallback_models`: the request, the parsing of
\* the answer, and the except clause; how the attempt ends is the environment's
\* choice
TryModel ==
    /\ unit = "fb"
    /\ pc = "loop"
    /\ Len(attempts) < Len(fallback_models)
    /\ \E outcome \in Outcomes :
          LET try_model == fallback_models[Len(attempts) + 1]
              go == AfterAttempt(outcome)
          IN  /\ attempts' = Append(attempts, [model |-> try_model, outcome |-> outcome])
              /\ IF go = "return"
                 THEN /\ fb_result' = [kind |-> "result", model_used |-> try_model]
                      /\ pc' = "returned"
                 ELSE /\ fb_result' = fb_result
                      /\ pc' = IF go = "continue" THEN "loop" ELSE "after_loop"
    /\ UNCHANGED <<unit, iouVars, objVars, textVars, pixVars, scoreVars, cmpVars,
                   cliVars, optVars, batchVars, stabVars, fb_call, fallback_models>>

\* the return after the loop, reached by break or by the end of the list
ReturnError ==
    /\ unit = "fb"
    /\ \/ pc = "after_loop"
       \/ pc = "loop" /\ Len(attempts) = Len(fallback_models)
    /\ fb_result' = [kind |-> "error", models_tried |-> fallback_models]
    /\ pc' = "returned"
    /\ UNCHANGED <<unit, iouVars, objVars, textVars, pixVars, scoreVars, cmpVars,
                   cliVars, optVars, batchVars, stabVars, fb_call, fallback_models, attempts>>

---------------------------------------------------------------------------
(* The snapshot tool: run_batch *)

\* lines of the batch file, as sequences of characters: a line of white space,
\* two host names (one indented) and a text too short to be a URL; none carries
\* a scheme
BlankLine == <<" ">>
FileLines ==
    {BlankLine, <<"a", ".", "j", "p">>, <<" ", "b", ".", "j", "p">>, <<"x">>}
MaxLines == 3
BatchFiles == UNION {[1..n -> FileLines] : n \in 0..MaxLines}

ValidOptions == [width |-> 2, height |-> 1, wait_given |-> FALSE, wait |-> 0]
ZeroWidth == [width |-> 0, height |-> 1, wait_given |-> FALSE, wait |-> 0]

\* --output-dir: absent, a directory that exists or can be made, or a path where
\* mkdir(parents=True, exist_ok=True) raises (a regular file, a read-only parent)
OutputDirs == {"None", "shots", "blocked"}

BatchArguments ==
    [exists : {TRUE}, lines : BatchFiles, output_dir : OutputDirs,
     viewport : BOOLEAN, options : {ValidOptions}]
        \cup [exists : {TRUE}, lines : BatchFiles, output_dir : {"None"},
              viewport : {FALSE}, options : {ZeroWidth}]
        \cup [exists : {FALSE}, lines : {<<>>}, output_dir : {"None"},
              viewport : BOOLEAN, options : {ValidOptions}]

RECURSIVE lstrip(_)
lstrip(line) ==
    IF line # <<>> /\ Head(line) = " " THEN lstrip(Tail(line)) ELSE line

RECURSIVE rstrip(_)
rstrip(line) ==
    IF line # <<>> /\ line[Len(line)] = " "
    THEN rstrip(SubSeq(line, 1, Len(line) - 1))
    ELSE line

\* str.strip()
strip(line) == rstrip(lstrip(line))

\* [line.strip() for line in ... if line.strip()]
RECURSIVE StrippedLines(_)
StrippedLines(lines) ==
    IF lines = <<>> THEN <<>>
    ELSE IF strip(Head(lines)) # <<>>
         THEN <<strip(Head(lines))>> \o StrippedLines(Tail(lines))
         ELSE StrippedLines(Tail(lines))

\* is_valid_url for a text without scheme: 'https://' is put in front, and the
\* netloc urlparse finds is empty when the text starts with '/', '?' or '#'
is_valid_url(url) ==
    /\ Len(url) >= 3
    /\ Head(url) \notin {"/", "?", "#"}

\* generate_filename(): prefix, time stamp to the second, extension
generate_filename(t) == <<"screenshot", t, "png">>

\* resolve_output_path with args.output = None; <<"raised">> when mkdir raises
resolve_output_path(a, t) ==
    IF a.output_dir # "None"
    THEN IF a.output_dir = "blocked" THEN <<"raised">>
         ELSE <<a.output_dir>> \o generate_filename(t)
    ELSE generate_filename(t)

\* how take_screenshot can end: the file is written and the call returns; it
\* raises before the file is written; it raises after the file is written (the
\* OCR step)
CaptureOutcomes == {"saved", "failed", "saved_then_failed"}

\* change of the clock's seconds during one take_screenshot: a full-page capture
\* waits more than six seconds in _wait_for_page_stabilization, a viewport
\* capture has no fixed wait
Elapsed(a) == IF a.viewport THEN {0, 1} ELSE {1, 2}

\* main has parsed the arguments and calls run_batch
InitBatch ==
    /\ unit = "batch"
    /\ pc = "start"
    /\ batch_args \in BatchArguments
    /\ urls = <<>>
    /\ url_index = 0
    /\ success_count = 0
    /\ error_count = 0
    /\ wall_clock = 0
    /\ attempted = <<>>
    /\ saved_files = <<>>
    /\ batch_exit = 0
    /\ batch_raised = FALSE
    /\ IdleIoU /\ IdleObj /\ IdleText /\ IdlePix /\ IdleScore /\ IdleCmp /\ IdleCli
    /\ IdleOpt /\ IdleFb /\ IdleStab

\* run_batch up to the loop
ReadBatchFile ==
    /\ unit = "batch"
    /\ pc = "start"
    /\ IF ~batch_args.exists
       THEN /\ batch_exit' = 1
            /\ pc' = "done"
            /\ UNCHANGED <<urls, url_index>>
       ELSE LET urls_ == StrippedLines(batch_args.lines)
            IN  /\ urls' = urls_
                /\ IF urls_ = <<>>
                   THEN /\ batch_exit' = 1
                        /\ pc' = "done"
                        /\ UNCHANGED url_index
                   ELSE /\ url_index' = 1
                        /\ pc' = "loop"
                        /\ UNCHANGED batch_exit
    /\ UNCHANGED <<unit, iouVars, objVars, textVars, pixVars, scoreVars, cmpVars,
                   cliVars, optVars, fbVars, stabVars, batch_args, success_count,
                   error_count, wall_clock, attempted, saved_files, batch_raised>>

\* one pass of the for loop: run_screenshot(args) for the next URL and the count
\* of its exit code
RunScreenshot ==
    /\ unit = "batch"
    /\ pc = "loop"
    /\ url_index <= Len(urls)
    /\ LET url == urls[url_index]
           output_path == resolve_output_path(batch_args, wall_clock)
       IN  /\ attempted' = Append(attempted, url)
           /\ IF validate_options(batch_args.options).exit_code # 0 \/ ~is_valid_url(url)
              THEN \* returned before anything is captured
                   /\ error_count' = error_count + 1
                   /\ url_index' = url_index + 1
                   /\ UNCHANGED <<success_count, wall_clock, saved_files, batch_exit,
                                  batch_raised, pc>>
              ELSE IF output_path = <<"raised">>
              THEN \* the exception of mkdir leaves run_screenshot and run_batch
                   /\ batch_raised' = TRUE
                   /\ pc' = "done"
                   /\ UNCHANGED <<success_count, error_count, url_index, wall_clock,
                                  saved_files, batch_exit>>
              ELSE \E outcome \in CaptureOutcomes, seconds \in Elapsed(batch_args) :
                   /\ wall_clock' = wall_clock + seconds
                   /\ saved_files' =
                         IF outcome = "failed" THEN saved_files
                         ELSE Append(saved_files,
                                     [url |-> url_index, path |-> output_path,
                                      captured |-> outcome = "saved"])
                   /\ IF outcome = "saved"
                      THEN success_count' = success_count + 1 /\ UNCHANGED error_count
                      ELSE error_count' = error_count + 1 /\ UNCHANGED success_count
                   /\ url_index' = url_index + 1
                   /\ UNCHANGED <<batch_exit, batch_raised, pc>>
    /\ UNCHANGED <<unit, iouVars, objVars, textVars, pixVars, scoreVars, cmpVars,
                   cliVars, optVars, fbVars, stabVars, batch_args, urls>>

\* the end of the loop and the return value
FinishBatch ==
    /\ unit = "batch"
    /\ pc = "loop"
    /\ url_index > Len(urls)
    /\ batch_exit' = IF error_count = 0 THEN 0 ELSE 1
    /\ pc' = "done"
    /\ UNCHANGED <<unit, iouVars, objVars, textVars, pixVars, scoreVars, cmpVars,
                   cliVars, optVars, fbVars, stabVars, batch_args, urls, url_index,
                   success_count, error_count, wall_clock, attempted, saved_files,
                   batch_raised>>

---------------------------------------------------------------------------
(* The snapshot tool: the loop of _wait_for_page_stabilization *)

max_iterations == 15
stable_iterations == 3

\* values of document.documentElement.scrollHeight
MaxHeight == 2
Heights == 0..MaxHeight

\* a faulty variant that keeps the stable counter when the height changes
LoopBody_no_reset(current_height, last, stable, iter) ==
    LET stable_ == IF current_height # last THEN stable ELSE stable + 1
    IN  [last_height |-> current_height,
         stable_count |-> stable_,
         iteration |-> IF stable_ >= stable_iterations THEN iter ELSE iter + 1,
         break |-> stable_ >= stable_iterations]

\* one pass of the while body for the sampled height: the new locals, and
\* whether the pass ends in break
LoopBody(current_height, last, stable, iter) ==
    LET stable_ == IF current_height # last THEN 0 ELSE stable + 1
    IN  [last_height |-> current_height,
         stable_count |-> stable_,
         iteration |-> IF stable_ >= stable_iterations THEN iter ELSE iter + 1,
         break |-> stable_ >= stable_iterations]

\* the latest four of a sequence
Latest(seq) == IF Len(seq) > 4 THEN SubSeq(seq, Len(seq) - 3, Len(seq)) ELSE seq

\* the locals before the loop
InitStab ==
    /\ unit = "stab"
    /\ pc = "loop"
    /\ last_height = 0
    /\ stable_count = 0
    /\ iteration = 0
    /\ samples = 0
    /\ recent = <<0>>
    /\ IdleIoU /\ IdleObj /\ IdleText /\ IdlePix /\ IdleScore /\ IdleCmp /\ IdleCli
    /\ IdleOpt /\ IdleFb /\ IdleBatch

\* the while test and one pass of the body; the page answers with any height
SampleHeight ==
    /\ unit = "stab"
    /\ pc = "loop"
    /\ iteration < max_iterations
    /\ \E current_height \in Heights :
          LET after == LoopBody(current_height, last_height, stable_count, iteration)
          IN  /\ last_height' = after.last_height
              /\ stable_count' = after.stable_count
              /\ iteration' = after.iteration
              /\ samples' = samples + 1
              /\ recent' = Latest(Append(recent, current_height))
              /\ pc' = IF after.break THEN "settle" ELSE "loop"
    /\ UNCHANGED <<unit, iouVars, objVars, textVars, pixVars, scoreVars, cmpVars,
                   cliVars, optVars, fbVars, batchVars>>

\* the while test fails
LeaveLoop ==
    /\ unit = "stab"
    /\ pc = "loop"
    /\ iteration >= max_iterations
    /\ pc' = "settle"
    /\ UNCHANGED <<unit, iouVars, objVars, textVars, pixVars, scoreVars, cmpVars,
                   cliVars, optVars, fbVars, batchVars, stabVars>>

\* the scrolls and waits after the loop
FinalScrolls ==
    /\ unit = "stab"
    /\ pc = "settle"
    /\ pc' = "done"
    /\ UNCHANGED <<unit, iouVars, objVars, textVars, pixVars, scoreVars, cmpVars,
                   cliVars, optVars, fbVars, batchVars, stabVars>>

---------------------------------------------------------------------------
(* Specifications *)

NextIoU == CalculateBboxIou
SpecIoU == InitIoU /\ [][NextIoU]_vars

NextObj == DetectObjectDiffs \/ CalculateObjectSimilarity \/ DetectObjectDiffsSwapped
SpecObj == InitObj /\ [][NextObj]_vars

NextText == DetectTextDiffs \/ CalculateTextSimilarity
SpecText == InitText /\ [][NextText]_vars

NextPix == CalculatePixelDiff \/ CalculatePixelStats \/ CreateDiffVisualization
SpecPix == InitPix /\ [][NextPix]_vars

\* the three similarity measures side by side
InitSim == InitObj \/ InitText \/ InitPix
NextSim == NextObj \/ NextText \/ NextPix
SpecSim == InitSim /\ [][NextSim]_vars

NextScore == CalculateOverallDiffScore \/ CategorizeDiffScore
SpecScore == InitScore /\ [][NextScore]_vars

NextCat == CategorizeDiffScore
SpecCat == InitCat /\ [][NextCat]_vars

NextCmp == CompareImagesWithAi \/ CompareAgain \/ CompareOtherImages
SpecCmp == InitCmp /\ [][NextCmp]_vars

NextCli ==
    \/ ParseArguments \/ ValidateArgs \/ CheckApiKey
    \/ CompareImages \/ CreateDiffImage
    \/ CompareWithAi \/ CreateVisualization
    \/ AnalyzeWithGlm \/ CreateSideBySide
    \/ OpenReport \/ WriteReport \/ WriteJson
SpecCli == InitCli /\ [][NextCli]_vars

NextOpt == ValidateOptions
SpecOpt == InitOpt /\ [][NextOpt]_vars

NextFb == BuildFallbackList \/ TryModel \/ ReturnError
SpecFb == InitFb /\ [][NextFb]_vars

NextBatch == ReadBatchFile \/ RunScreenshot \/ FinishBatch
SpecBatch == InitBatch /\ [][NextBatch]_vars

NextStab == SampleHeight \/ LeaveLoop \/ FinalScrolls
SpecStab == InitStab /\ [][NextStab]_vars
\* every await of the coroutine returns
SpecStabLive == SpecStab /\ WF_vars(NextStab)

---------------------------------------------------------------------------
(* Vocabulary of the claims *)

\* the unit squares a rectangle covers
Cells(b) == (b[1]..(b[1] + b[3] - 1)) \X (b[2]..(b[2] + b[4] - 1))
NonDegenerate(b) == b[3] > 0 /\ b[4] > 0
InUnitInterval(q) == q[2] > 0 /\ RatGE(q, Zero) /\ RatGE(One, q)

Range(s) == {s[k] : k \in DOMAIN s}
DiffsDone == unit = "obj" /\ pc \in {"diffed", "scored", "done"}
ScoreDone == unit = "obj" /\ pc \in {"scored", "done"}
\* before regions / after regions that are members of an accepted pair
PairedBefore == {p[1] : p \in Range(accepted)}
PairedAfter == {p[2] : p \in Range(accepted)}
\* positions of the diffs that mention before region i / after region j
DiffsOfBefore(i) == {k \in DOMAIN object_diffs : object_diffs[k].object_before = i}
DiffsOfAfter(j) == {k \in DOMAIN object_diffs : object_diffs[k].object_after = j}

---------------------------------------------------------------------------
(* Claims about calculate_bbox_iou *)

\* C3: calculate_bbox_iou(r, r) is exactly 1 for every rectangle r of positive
\* width and positive height.
C3_SelfIoUIsOne ==
    (unit = "iou" /\ pc = "done" /\ bbox1 = bbox2 /\ NonDegenerate(bbox1))
        => iou[1] = iou[2] /\ iou[2] > 0

C3_Witness ==
    /\ unit = "iou" /\ pc = "done"
    /\ bbox1 = bbox2 /\ NonDegenerate(bbox1)
    /\ iou[1] = bbox1[3] * bbox1[4]

\* C4: the result is 0 when the rectangles share no area (apart, or touching along
\* an edge or at a corner) and when the union has no area; the divisor is never 0
\* and the result lies in [0, 1].
C4_IoUZeroAndBounded ==
    (unit = "iou" /\ pc = "done") =>
        /\ iou[2] > 0
        /\ InUnitInterval(iou)
        /\ (Cells(bbox1) \cap Cells(bbox2) = {} => iou[1] = 0)
        /\ (Cells(bbox1) \cup Cells(bbox2) = {} => iou[1] = 0)

\* two flat rectangles (positive width, no height) lying on each other, which the
\* early return of line 455 does not catch
C4_Witness ==
    /\ unit = "iou" /\ pc = "done"
    /\ bbox1[3] > 0 /\ bbox1[4] = 0
    /\ bbox2[3] > 0 /\ bbox2[4] = 0
    /\ bbox1[1] <= bbox2[1] /\ bbox2[1] <= bbox1[1] + bbox1[3]
    /\ bbox1[2] <= bbox2[2] /\ bbox2[2] <= bbox1[2] + bbox1[4]
    /\ iou = Zero

---------------------------------------------------------------------------
(* Claims about detect_object_diffs *)

\* C1: the accepted pairs form a one-to-one partial matching: no before region
\* and no after region is a member of two accepted pairs.
C1_OneToOneMatching ==
    DiffsDone =>
        \A p, q \in DOMAIN accepted :
            p # q => /\ accepted[p][1] # accepted[q][1]
                     /\ accepted[p][2] # accepted[q][2]

\* C9: a before region in no accepted pair is in exactly one diff, a 'removed' one
\* with no after region; an after region never chosen is in exactly one diff, an
\* 'added' one with no before region; no diff lacks both regions; a paired region
\* is reported neither removed nor added; with an empty after list every before
\* region is reported removed once, nothing else is reported and the object
\* similarity is 0.
C9_UnmatchedReported ==
    DiffsDone =>
        /\ \A i \in DOMAIN regions1 :
              IF i \in PairedBefore
              THEN \A k \in DiffsOfBefore(i) : object_diffs[k].diff_type # "removed"
              ELSE /\ Cardinality(DiffsOfBefore(i)) = 1
                   /\ \A k \in DiffsOfBefore(i) :
                         object_diffs[k] = ObjectDiff(i, 0, "removed")
        /\ \A j \in DOMAIN regions2 :
              IF j \in PairedAfter
              THEN \A k \in DiffsOfAfter(j) : object_diffs[k].diff_type # "added"
              ELSE /\ Cardinality(DiffsOfAfter(j)) = 1
                   /\ \A k \in DiffsOfAfter(j) :
                         object_diffs[k] = ObjectDiff(0, j, "added")
        /\ \A k \in DOMAIN object_diffs :
              /\ object_diffs[k].object_before # 0 \/ object_diffs[k].object_after # 0
              /\ object_diffs[k].diff_type = "removed" =>
                    object_diffs[k].object_before \in DOMAIN regions1
              /\ object_diffs[k].diff_type = "added" =>
                    object_diffs[k].object_after \in DOMAIN regions2
        /\ (regions1 # <<>> /\ regions2 = <<>>) =>
              /\ Len(object_diffs) = Len(regions1)
              /\ \A k \in DOMAIN object_diffs : object_diffs[k].diff_type = "removed"
              /\ ScoreDone => object_similarity[1] = 0

\* one before region paired, another one reported removed, and the score computed
C9_Witness ==
    /\ ScoreDone
    /\ accepted # <<>>
    /\ \E k \in DOMAIN object_diffs : object_diffs[k].diff_type = "removed"
    /\ \E i \in DOMAIN regions1 : i \notin PairedBefore

\* the distance test of the claim: dx^2 + dy^2 > (0.5 w)^2 + (0.5 h)^2, on the
\* doubled center coordinates
CentersApart(b, a) ==
    LET cbx == 2 * b[1] + b[3]
        cby == 2 * b[2] + b[4]
        cax == 2 * a[1] + a[3]
        cay == 2 * a[2] + a[4]
    IN  (cbx - cax) * (cbx - cax) + (cby - cay) * (cby - cay)
            > b[3] * b[3] + b[4] * b[4]

MovedPairs ==
    {<<object_diffs[k].object_before, object_diffs[k].object_after>> :
        k \in {m \in DOMAIN object_diffs : object_diffs[m].diff_type = "moved"}}

\* C10: the 'moved' diffs are exactly the accepted pairs whose centers are further
\* apart than half the diagonal of the before rectangle; an accepted pair that is
\* not moved has no diff entry; a pair whose IoU is not above 0.5 is never
\* 'moved', and when it is the whole input it is one 'removed' plus one 'added'.
C10_MovedOnlyWhenAccepted ==
    DiffsDone =>
        /\ MovedPairs =
              {p \in Range(accepted) : CentersApart(regions1[p[1]], regions2[p[2]])}
        /\ \A k \in DOMAIN object_diffs :
              object_diffs[k].diff_type \in {"moved", "removed", "added"}
        /\ \A p \in Range(accepted) :
              /\ RatGT(calculate_bbox_iou(regions1[p[1]], regions2[p[2]]), MatchThreshold)
              /\ p \notin MovedPairs =>
                    \A k \in DOMAIN object_diffs :
                        /\ object_diffs[k].object_before # p[1]
                        /\ object_diffs[k].object_after # p[2]
        /\ \A i \in DOMAIN regions1 : \A j \in DOMAIN regions2 :
              ~RatGT(calculate_bbox_iou(regions1[i], regions2[j]), MatchThreshold)
                  => /\ <<i, j>> \notin MovedPairs
                     /\ <<i, j>> \notin Range(accepted)
        /\ (Len(regions1) = 1 /\ Len(regions2) = 1 /\ accepted = <<>>) =>
              object_diffs = <<ObjectDiff(1, 0, "removed"), ObjectDiff(0, 1, "added")>>

\* two rectangles of the same size, apart from each other
C10_Witness ==
    /\ DiffsDone
    /\ Len(regions1) = 1 /\ Len(regions2) = 1
    /\ NonDegenerate(regions1[1])
    /\ regions1[1][3] = regions2[1][3] /\ regions1[1][4] = regions2[1][4]
    /\ regions1[1][1] + regions1[1][3] < regions2[1][1]
    /\ object_diffs = <<ObjectDiff(1, 0, "removed"), ObjectDiff(0, 1, "added")>>

---------------------------------------------------------------------------
(* Claims about the symmetry of detect_object_diffs *)

AllDone == unit = "obj" /\ pc = "done"
\* how many diffs of class type concern a region whose rectangle is r; side picks
\* the region a diff of that class carries
CountDiffs(diffs, type, r, rs, side) ==
    Cardinality({k \in DOMAIN diffs :
        /\ diffs[k].diff_type = type
        /\ rs[IF side = "before" THEN diffs[k].object_before
                                 ELSE diffs[k].object_after] = r})

\* C2 as stated: exchanging the two lists turns every 'added' into 'removed' and
\* back (counted per rectangle, whatever the order of the list) and keeps the
\* member rectangles of every accepted pair, roles exchanged.
C2_SwapSymmetric ==
    AllDone =>
        /\ \A r \in Range(regions1) \cup Range(regions2) :
              /\ CountDiffs(object_diffs, "removed", r, regions1, "before")
                    = CountDiffs(swapped_diffs, "added", r, regions1, "after")
              /\ CountDiffs(object_diffs, "added", r, regions2, "after")
                    = CountDiffs(swapped_diffs, "removed", r, regions2, "before")
        /\ {<<regions1[p[1]], regions2[p[2]]>> : p \in Range(accepted)}
              = {<<regions1[q[2]], regions2[q[1]]>> : q \in Range(swapped_accepted)}

Overlapping(i, j) ==
    RatGT(calculate_bbox_iou(regions1[i], regions2[j]), MatchThreshold)
\* no region has an IoU above 0.5 with two regions of the other list
UnambiguousOverlap ==
    \A i1, i2 \in DOMAIN regions1 : \A j1, j2 \in DOMAIN regions2 :
        (Overlapping(i1, j1) /\ Overlapping(i2, j2)) => (i1 = i2 <=> j1 = j2)

DiffTargets(diffs, type) ==
    {<<diffs[k].object_before, diffs[k].object_after>> :
        k \in {m \in DOMAIN diffs : diffs[m].diff_type = type}}
Flip(pairs) == {<<p[2], p[1]>> : p \in pairs}

\* C2 amended: when no region has an IoU above 0.5 with more than one region of
\* the other list, exchanging the lists turns every 'removed' region into an
\* 'added' one and back, region by region, accepts the same pairs with the roles
\* exchanged, and reports the same number of diffs.
C2_SwapSymmetricWhenUnambiguous ==
    (AllDone /\ UnambiguousOverlap) =>
        /\ DiffTargets(swapped_diffs, "added") = Flip(DiffTargets(object_diffs, "removed"))
        /\ DiffTargets(swapped_diffs, "removed") = Flip(DiffTargets(object_diffs, "added"))
        /\ DiffTargets(swapped_diffs, "moved") = Flip(DiffTargets(object_diffs, "moved"))
        /\ Range(swapped_accepted) = Flip(Range(accepted))
        /\ Len(swapped_diffs) = Len(object_diffs)

C2_Witness ==
    /\ AllDone /\ UnambiguousOverlap
    /\ accepted # <<>>
    /\ DiffTargets(object_diffs, "removed") # {}
    /\ DiffTargets(swapped_diffs, "added") # {}

---------------------------------------------------------------------------
(* Claims about calculate_object_similarity *)

PairIoU(p) == calculate_bbox_iou(regions1[p[1]], regions2[p[2]])
\* after regions taken by the pairs before position k of matched_pairs
TakenBefore(k) == {matched_pairs[m][2] : m \in 1..(k - 1)}
\* after regions taken by the pairs whose before region precedes i
TakenAhead(i) ==
    {matched_pairs[m][2] : m \in {n \in DOMAIN matched_pairs : matched_pairs[n][1] < i}}

\* matched_pairs is what a greedy pass over the before list gives: each pair is the
\* best still free after region of its before region, with an IoU above 0.3, and a
\* before region without a pair had no free after region above 0.3
GreedyPairs ==
    /\ \A k \in DOMAIN matched_pairs :
          LET p == matched_pairs[k]
          IN  /\ p[1] \in DOMAIN regions1 /\ p[2] \in DOMAIN regions2
              /\ p[3] = PairIoU(p)
              /\ RatGT(p[3], SimilarityThreshold)
              /\ p[2] \notin TakenBefore(k)
              /\ k > 1 => matched_pairs[k - 1][1] < p[1]
              /\ \A j \in DOMAIN regions2 \ TakenBefore(k) :
                    RatGE(p[3], calculate_bbox_iou(regions1[p[1]], regions2[j]))
    /\ \A i \in DOMAIN regions1 :
          (\A k \in DOMAIN matched_pairs : matched_pairs[k][1] # i) =>
              \A j \in DOMAIN regions2 \ TakenAhead(i) :
                  ~RatGT(calculate_bbox_iou(regions1[i], regions2[j]), SimilarityThreshold)

\* the sum of the IoUs of the first k pairs, over the common denominator
RECURSIVE IoUTotal(_)
IoUTotal(k) ==
    IF k = 0 THEN Zero
    ELSE LET rest == IoUTotal(k - 1)
             q == PairIoU(matched_pairs[k])
         IN  <<rest[1] * q[2] + q[1] * rest[2], rest[2] * q[2]>>

\* C8: the score is (average IoU of the accepted pairs) x (2 x pairs) / (|before| +
\* |after|) with the pairs of the greedy pass at IoU > 0.3; it is 1 for two empty
\* lists, 0 when exactly one list is empty, 0 when no pair clears 0.3.
C8_ObjectSimilarityFormula ==
    ScoreDone =>
        LET n == Len(matched_pairs)
            total == Len(regions1) + Len(regions2)
            sum == IoUTotal(n)
        IN  /\ GreedyPairs
            /\ object_similarity[2] > 0
            /\ (regions1 = <<>> /\ regions2 = <<>>) => RatEQ(object_similarity, One)
            /\ ((regions1 = <<>>) # (regions2 = <<>>)) => RatEQ(object_similarity, Zero)
            /\ (\A i \in DOMAIN regions1 : \A j \in DOMAIN regions2 :
                    ~RatGT(calculate_bbox_iou(regions1[i], regions2[j]), SimilarityThreshold))
                  => (total > 0 => RatEQ(object_similarity, Zero))
            /\ n > 0 =>
                  \* avg = sum / n, coverage = 2n / total
                  RatEQ(object_similarity, <<sum[1] * 2 * n, sum[2] * n * total>>)
            /\ (n = 0 /\ total > 0) => RatEQ(object_similarity, Zero)

\* a pair between the two thresholds and a region left over
C8_Witness ==
    /\ ScoreDone
    /\ Len(matched_pairs) >= 1
    /\ Len(regions1) + Len(regions2) > 2 * Len(matched_pairs)
    /\ \E k \in DOMAIN matched_pairs : ~RatGT(matched_pairs[k][3], MatchThreshold)
    /\ RatGT(object_similarity, Zero) /\ RatGT(One, object_similarity)

---------------------------------------------------------------------------
(* Claims about the order of the matching *)

IoUOf(i, j) == calculate_bbox_iou(regions1[i], regions2[j])
\* j is the first of the candidates with the highest IoU for the before region i
FirstBest(i, j, candidates) ==
    /\ j \in candidates
    /\ \A c \in candidates :
          /\ RatGE(IoUOf(i, j), IoUOf(i, c))
          /\ c < j => RatGT(IoUOf(i, j), IoUOf(i, c))

\* C22: both matchers go through the before regions in list order; the partner
\* of a before region is the lowest-indexed candidate with the highest IoU; the
\* pairing is accepted only when that IoU is strictly above the threshold (0.5 in
\* detect_object_diffs, 0.3 in calculate_object_similarity), never at the
\* threshold; and an earlier choice is never reassigned.
C22_GreedyInInputOrder ==
    /\ DiffsDone =>
          /\ \A k \in DOMAIN accepted :
                LET p == accepted[k]
                IN  /\ FirstBest(p[1], p[2], DOMAIN regions2)
                    /\ RatGT(IoUOf(p[1], p[2]), MatchThreshold)
                    /\ k > 1 => accepted[k - 1][1] < p[1]
          /\ \A i \in DOMAIN regions1 :
                (\A k \in DOMAIN accepted : accepted[k][1] # i) =>
                    \A j \in DOMAIN regions2 : ~RatGT(IoUOf(i, j), MatchThreshold)
    /\ ScoreDone =>
          /\ \A k \in DOMAIN matched_pairs :
                LET p == matched_pairs[k]
                IN  /\ FirstBest(p[1], p[2], DOMAIN regions2 \ TakenBefore(k))
                    /\ p[3] = IoUOf(p[1], p[2])
                    /\ RatGT(p[3], SimilarityThreshold)
                    /\ k > 1 => matched_pairs[k - 1][1] < p[1]
          /\ \A i \in DOMAIN regions1 :
                (\A k \in DOMAIN matched_pairs : matched_pairs[k][1] # i) =>
                    \A j \in DOMAIN regions2 \ TakenAhead(i) :
                        ~RatGT(IoUOf(i, j), SimilarityThreshold)

\* one before region with two after regions at IoU 1/2 each: not accepted by
\* detect_object_diffs, paired with the first by calculate_object_similarity
C22_Witness ==
    /\ ScoreDone
    /\ Len(regions1) = 1
    /\ Len(regions2) = 2
    /\ RatEQ(IoUOf(1, 1), MatchThreshold)
    /\ RatEQ(IoUOf(1, 2), MatchThreshold)
    /\ accepted = <<>>
    /\ Len(matched_pairs) = 1
    /\ matched_pairs[1][2] = 1

---------------------------------------------------------------------------
(* Claims about the classes detect_object_diffs reports *)

\* twice the center of a bbox
Center2(b) == <<2 * b[1] + b[3], 2 * b[2] + b[4]>>

\* C25: for rectangles of non-negative width and height detect_object_diffs never
\* reports 'moved' nor 'modified': the center distance test cannot hold for a pair
\* whose IoU is above 0.5, so every diff is 'removed' or 'added'.
C25_NeverMoved ==
    DiffsDone =>
        /\ \A k \in DOMAIN object_diffs :
              object_diffs[k].diff_type \in {"removed", "added"}
        /\ \A k \in DOMAIN accepted :
              ~CentersApart(regions1[accepted[k][1]], regions2[accepted[k][2]])

\* an accepted pair whose after region has another center, next to a region left
\* over
C25_Witness ==
    /\ DiffsDone
    /\ \E k \in DOMAIN accepted :
          Center2(regions1[accepted[k][1]]) # Center2(regions2[accepted[k][2]])
    /\ object_diffs # <<>>
    /\ \A k \in DOMAIN object_diffs : object_diffs[k].diff_type \in {"removed", "added"}

\* C26: a list of regions of positive width and height compared with itself gives
\* no diff, also when the list holds the same rectangle more than once.
C26_SelfComparisonEmpty ==
    (DiffsDone /\ regions1 = regions2
        /\ \A k \in DOMAIN regions1 : NonDegenerate(regions1[k]))
            => object_diffs = <<>>

---------------------------------------------------------------------------
(* Claims about the text comparison *)

TextDiffsDone == unit = "text" /\ pc \in {"diffed", "done"}
TextScoreDone == unit = "text" /\ pc = "done"

\* the first word of a text that starts with a letter
RECURSIVE FirstWord(_)
FirstWord(t) ==
    IF t = <<>> \/ Head(t) \in Whitespace THEN <<>> ELSE <<Head(t)>> \o FirstWord(Tail(t))

\* the words of a text: its maximal runs of characters that are not whitespace
RECURSIVE Words(_)
Words(t) ==
    IF t = <<>> THEN <<>>
    ELSE IF Head(t) \in Whitespace THEN Words(Tail(t))
    ELSE LET w == FirstWord(t)
         IN  <<w>> \o Words(SubSeq(t, Len(w) + 1, Len(t)))

\* words written out with one space between them
RECURSIVE Join(_)
Join(ws) ==
    IF ws = <<>> THEN <<>>
    ELSE IF Len(ws) = 1 THEN ws[1]
    ELSE ws[1] \o <<" ">> \o Join(Tail(ws))

\* the strings of a side, each taken as its sequence of words
WordSet(rs) == {Words(rs[k]) : k \in DOMAIN rs}

\* C6: the text similarity is the Jaccard index of the two sets of normalized
\* strings: 1 for two equal non-empty sets, 0 for two disjoint non-empty sets,
\* 1 when both are empty, 0 when exactly one is.
C6_TextSimilarityIsJaccard ==
    TextScoreDone =>
        LET W1 == WordSet(text_regions1)
            W2 == WordSet(text_regions2)
        IN  /\ text_similarity[2] > 0
            /\ (W1 = {} /\ W2 = {}) => RatEQ(text_similarity, One)
            /\ ((W1 = {}) # (W2 = {})) => RatEQ(text_similarity, Zero)
            /\ (W1 # {} /\ W2 # {}) =>
                  /\ RatEQ(text_similarity,
                           <<Cardinality(W1 \cap W2), Cardinality(W1 \cup W2)>>)
                  /\ W1 = W2 => RatEQ(text_similarity, One)
                  /\ W1 \cap W2 = {} => RatEQ(text_similarity, Zero)

\* the two sides share a string and each has one of its own
C6_Witness ==
    /\ TextScoreDone
    /\ WordSet(text_regions1) \cap WordSet(text_regions2) # {}
    /\ WordSet(text_regions1) # WordSet(text_regions2)
    /\ RatGT(text_similarity, Zero) /\ RatGT(One, text_similarity)

\* C7: one 'removed' diff per normalized string found only before, one 'added'
\* diff per normalized string found only after, nothing else; two texts with the
\* same words, whatever whitespace separates or surrounds them, give no text
\* diff and text similarity 1.
C7_TextDiffsPerString ==
    TextDiffsDone =>
        LET W1 == WordSet(text_regions1)
            W2 == WordSet(text_regions2)
        IN  /\ \A w \in W1 \ W2 :
                  Cardinality({k \in DOMAIN text_diffs :
                      text_diffs[k] = TextDiff(Join(w), <<>>, "removed")}) = 1
            /\ \A w \in W2 \ W1 :
                  Cardinality({k \in DOMAIN text_diffs :
                      text_diffs[k] = TextDiff(<<>>, Join(w), "added")}) = 1
            /\ Len(text_diffs) = Cardinality(W1 \ W2) + Cardinality(W2 \ W1)
            /\ (/\ Len(text_regions1) = 1
                /\ Len(text_regions2) = 1
                /\ Words(text_regions1[1]) = Words(text_regions2[1])) =>
                  /\ text_diffs = <<>>
                  /\ TextScoreDone => RatEQ(text_similarity, One)

\* one text on each side, the same two or more words, a longer run of whitespace
\* inside one of them
C7_Witness ==
    /\ TextScoreDone
    /\ Len(text_regions1) = 1 /\ Len(text_regions2) = 1
    /\ Len(Words(text_regions1[1])) >= 2
    /\ Words(text_regions1[1]) = Words(text_regions2[1])
    /\ text_regions1[1] = Join(Words(text_regions1[1]))
    /\ Len(text_regions2[1]) > Len(text_regions1[1])
    /\ Head(text_regions2[1]) \notin Whitespace
    /\ text_regions2[1][Len(text_regions2[1])] \notin Whitespace
    /\ text_diffs = <<>>
    /\ text_similarity = One

---------------------------------------------------------------------------
(* Claim about the three similarity measures *)

PixelDone == unit = "pix" /\ pc = "done"

\* C5: the pixel similarity, the text similarity and the object similarity each
\* lie in [0, 1].
C5_SimilaritiesInUnitInterval ==
    /\ ScoreDone => InUnitInterval(object_similarity)
    /\ TextScoreDone => InUnitInterval(text_similarity)
    /\ PixelDone => InUnitInterval(pixel_similarity)

\* two images of one size that differ in some pixels and agree in others
C5_Witness ==
    /\ PixelDone
    /\ img1.width = img2.width /\ img1.height = img2.height
    /\ pixel_stats.different_pixels > 0
    /\ pixel_stats.different_pixels < pixel_stats.total_pixels
    /\ RatGT(pixel_similarity, Zero) /\ RatGT(One, pixel_similarity)

---------------------------------------------------------------------------
(* Claims about the pixel statistics and the normaliser *)

PixelStatsDone == unit = "pix" /\ pc = "stats_done"
\* the canvas both images are brought to
TargetWidth == Max(img1.width, img2.width)
TargetHeight == Max(img1.height, img2.height)
\* the pixels of the normalised pair whose difference level is above the threshold
Exceeding ==
    {k \in DOMAIN normalized[1].data :
        Difference(normalized[1], normalized[2])[k] > NoiseThreshold}

\* C11: calculate_pixel_diff and calculate_pixel_stats count a pixel as differing
\* only when the level of its difference exceeds the noise threshold 10; a pixel
\* at exactly 10 is not counted.
C11_CountsOnlyAboveThreshold ==
    (PixelDone \/ PixelStatsDone) =>
        pixel_stats.different_pixels = Cardinality(Exceeding)

\* C12: calculate_pixel_diff reports the ratio differing / total and the
\* similarity 1 - ratio, and on a canvas without pixels it returns similarity 1
\* and ratio 0 instead of failing with a division by zero.
C12_RatioAndZeroCanvas ==
    /\ (unit = "pix" /\ pc = "raised") => TargetWidth * TargetHeight > 0
    /\ PixelDone =>
          LET different == pixel_stats.different_pixels
              total == pixel_stats.total_pixels
          IN  IF total = 0
              THEN RatEQ(pixel_similarity, One) /\ RatEQ(pixel_stats.diff_ratio, Zero)
              ELSE /\ RatEQ(pixel_stats.diff_ratio, <<different, total>>)
                   /\ RatEQ(pixel_similarity, <<total - different, total>>)

\* C13: on every path that normalises (calculate_pixel_diff,
\* create_diff_visualization, resize_to_match) both images come out with the
\* larger of the two widths and the larger of the two heights, and two images of
\* equal size come out as they went in, without resampling.
C13_NormalizerTargetAndPassThrough ==
    (unit = "pix" /\ normalized # <<>>) =>
        /\ \A k \in 1..2 :
              /\ normalized[k].width = TargetWidth
              /\ normalized[k].height = TargetHeight
        /\ SameSize(img1, img2) => normalized = <<img1, img2>>

\* resize_to_match on two different images of one size with several pixels
C13_Witness ==
    /\ PixelStatsDone
    /\ SameSize(img1, img2)
    /\ img1.width * img1.height > 1
    /\ img1 # img2
    /\ normalized = <<img1, img2>>

---------------------------------------------------------------------------
(* Claims about the visualisation *)

Visualized == unit = "pix" /\ pc = "visualized"
\* the origins of the grid blocks of a row or column of n pixels
BlockStarts(n) == {k * BlockSize : k \in 0..((n - 1) \div BlockSize)}
\* the levels of the difference image inside the block at (x, y)
BlockLevels(x, y) ==
    LET w == normalized[1].width
        h == normalized[1].height
        diff == Difference(normalized[1], normalized[2])
    IN  {diff[by * w + bx + 1] : bx \in x..(Min(x + BlockSize, w) - 1),
                                 by \in y..(Min(y + BlockSize, h) - 1)}
\* the block at (x, y) carries a grid outline at the x offset dx
Outlined(x, y, dx) ==
    \E k \in DOMAIN visualization.rectangles :
       /\ visualization.rectangles[k].outline = "red"
       /\ visualization.rectangles[k].box
             = <<dx + x, y, dx + x + BlockSize, y + BlockSize>>

\* C23: a block of the 10 pixel grid is outlined, on both halves of the canvas,
\* exactly when a pixel inside it has a difference above the noise threshold, the
\* threshold (10) the pixel statistics count differing pixels with.
C23_BlockMarkedAboveNoiseThreshold ==
    Visualized =>
        \A x \in BlockStarts(normalized[1].width) :
        \A y \in BlockStarts(normalized[1].height) :
           LET exceeds == \E level \in BlockLevels(x, y) : level > NoiseThreshold
           IN  /\ Outlined(x, y, 0) <=> exceeds
               /\ Outlined(x, y, normalized[1].width) <=> exceeds

ObjectColors == {"magenta", "cyan", "orange"}
TextColors == {"green", "blue", "yellow"}
\* 1 for an outline of the pixel grid, 2 for one of an object diff, 3 for one of a
\* text diff
Layer(r) ==
    IF r.outline = "red" THEN 1 ELSE IF r.outline \in ObjectColors THEN 2 ELSE 3
\* the corners of the bbox b drawn at the x offset dx
HalfBox(b, dx) == <<dx + b[1], b[2], dx + b[1] + b[3], b[2] + b[4]>>
\* the positions of the outlines in one color / of the object diffs of one class
OutlinesIn(color) ==
    {k \in DOMAIN visualization.rectangles : visualization.rectangles[k].outline = color}
DiffsOfClass(type) ==
    {k \in DOMAIN vis_diffs.object_diffs : vis_diffs.object_diffs[k].diff_type = type}

\* C24: the canvas is twice as wide as the normalised images; a 'removed' object
\* diff is outlined only on the before half (x offset 0), an 'added' one only on
\* the after half (x offset = width), a 'moved' one on both halves, each class in
\* its own color; all grid outlines are drawn before all object outlines, and
\* these before all text outlines.
C24_HalvesColorsAndOrder ==
    Visualized =>
        LET w == normalized[1].width
            rects == visualization.rectangles
            diffs == vis_diffs.object_diffs
        IN  /\ visualization.width = 2 * w
            /\ Cardinality(OutlinesIn("magenta")) = Cardinality(DiffsOfClass("removed"))
            /\ Cardinality(OutlinesIn("cyan")) = Cardinality(DiffsOfClass("added"))
            /\ Cardinality(OutlinesIn("orange")) = 2 * Cardinality(DiffsOfClass("moved"))
            /\ \A d \in DiffsOfClass("removed") :
                  \E k \in OutlinesIn("magenta") :
                     rects[k].box = HalfBox(diffs[d].object_before, 0)
            /\ \A d \in DiffsOfClass("added") :
                  \E k \in OutlinesIn("cyan") :
                     rects[k].box = HalfBox(diffs[d].object_after, w)
            /\ \A d \in DiffsOfClass("moved") :
                  \E k, m \in OutlinesIn("orange") :
                     /\ rects[k].box = HalfBox(diffs[d].object_before, 0)
                     /\ rects[m].box = HalfBox(diffs[d].object_after, w)
            /\ \A k, m \in DOMAIN rects : k < m => Layer(rects[k]) <= Layer(rects[m])

\* a marked block, a moved, an added and a removed object, and a text diff
C24_Witness ==
    /\ Visualized
    /\ OutlinesIn("red") # {}
    /\ DiffsOfClass("removed") # {}
    /\ DiffsOfClass("added") # {}
    /\ DiffsOfClass("moved") # {}
    /\ vis_diffs.text_diffs # <<>>
    /\ \E k \in DOMAIN visualization.rectangles :
          Layer(visualization.rectangles[k]) = 3

---------------------------------------------------------------------------
(* Claims about the configuration of the hash comparison *)

\* the threshold is a number of [0, 1]
InRange(t) == ~IsNaN(t) /\ RatGE(t, Zero) /\ RatGE(One, t)

\* the caller asks for a hash family that does not exist or for a threshold
\* outside [0, 1]
ConfigError ==
    args.hash_algorithm \notin HashFamilies \/ ~InRange(args.threshold)

\* C14: a configuration error of the hash comparison (unknown hash family,
\* threshold outside [0, 1]) is rejected before any comparison work: no image is
\* loaded, no hash is computed, no report or diff file is written, and the run
\* ends with a single failure.
C14_ConfigErrorRejectedFirst ==
    (unit = "cli" /\ program = "compare_images" /\ ConfigError) =>
        /\ images_loaded = 0
        /\ hashes_computed = 0
        /\ written = {}
        /\ pc = "exited" => (exit_code # 0 /\ Len(errors) = 1)

---------------------------------------------------------------------------
(* Claims about the overall score and its categories *)

Scored == unit = "score" /\ pc \in {"scored", "done"}
UsesDefaultWeights ==
    <<score_args.pixel_weight, score_args.text_weight, score_args.object_weight>>
        = DefaultWeights
NonNegativeWeights ==
    /\ RatGE(score_args.pixel_weight, Zero)
    /\ RatGE(score_args.text_weight, Zero)
    /\ RatGE(score_args.object_weight, Zero)

\* the score of the arguments with one similarity replaced
ScoreWithPixel(s) ==
    calculate_overall_diff_score(s, score_args.text_similarity,
                                 score_args.object_similarity, score_args.pixel_weight,
                                 score_args.text_weight, score_args.object_weight)
ScoreWithText(s) ==
    calculate_overall_diff_score(score_args.pixel_similarity, s,
                                 score_args.object_similarity, score_args.pixel_weight,
                                 score_args.text_weight, score_args.object_weight)
ScoreWithObject(s) ==
    calculate_overall_diff_score(score_args.pixel_similarity,
                                 score_args.text_similarity, s, score_args.pixel_weight,
                                 score_args.text_weight, score_args.object_weight)

\* C15: with the default weights the overall score is
\* pixel * 0.3 + text * 0.4 + object * 0.3, and it lies in [0, 1] whenever the three
\* similarities lie in [0, 1].
C15_DefaultWeightedSum ==
    (Scored /\ UsesDefaultWeights) =>
        LET p == score_args.pixel_similarity
            t == score_args.text_similarity
            o == score_args.object_similarity
        IN  /\ overall_score[2] > 0
            /\ overall_score[1] * (10 * p[2] * t[2] * o[2])
                   = (3 * p[1] * t[2] * o[2] + 4 * t[1] * p[2] * o[2]
                        + 3 * o[1] * p[2] * t[2]) * overall_score[2]
            /\ (InUnitInterval(p) /\ InUnitInterval(t) /\ InUnitInterval(o))
                   => InUnitInterval(overall_score)

\* 0.5 * 0.3 + 1.0 * 0.4 + 1.0 * 0.3 = 0.85
C15_Witness ==
    /\ Scored
    /\ UsesDefaultWeights
    /\ RatEQ(score_args.pixel_similarity, <<1, 2>>)
    /\ RatEQ(score_args.text_similarity, One)
    /\ RatEQ(score_args.object_similarity, One)
    /\ RatEQ(overall_score, <<85, 100>>)

\* C16: with non-negative weights the overall score does not decrease when one
\* of the three similarities grows and the other two stay fixed.
C16_MonotoneInEachSimilarity ==
    (Scored /\ NonNegativeWeights) =>
        \A s \in ScoreSamples :
            /\ RatGE(s, score_args.pixel_similarity)
                   => RatGE(ScoreWithPixel(s), overall_score)
            /\ RatGE(s, score_args.text_similarity)
                   => RatGE(ScoreWithText(s), overall_score)
            /\ RatGE(s, score_args.object_similarity)
                   => RatGE(ScoreWithObject(s), overall_score)

\* a larger object similarity gives a strictly larger score
C16_Witness ==
    /\ Scored
    /\ NonNegativeWeights
    /\ RatGT(score_args.object_weight, Zero)
    /\ \E s \in ScoreSamples :
          /\ RatGT(s, score_args.object_similarity)
          /\ RatGT(ScoreWithObject(s), overall_score)

Categorized == unit \in {"score", "cat"} /\ pc = "done"
Thresholds == << <<95, 100>>, <<85, 100>>, <<70, 100>>, <<50, 100>> >>
\* position of a category in the order, 1 the best
Rank(c) == CHOOSE k \in DOMAIN Categories : Categories[k] = c

\* C17: every score gets exactly one of the five ordered categories: the first
\* from 0.95, the second from 0.85, the third from 0.70, the fourth from 0.50, the
\* fifth below; a score on a threshold gets the higher category, and a higher
\* score never gets a lower category than a lower score.
C17_CategoryByThresholds ==
    Categorized =>
        /\ Cardinality({k \in DOMAIN Categories : Categories[k] = category}) = 1
        /\ Rank(category)
               = 1 + Cardinality({k \in DOMAIN Thresholds :
                                     ~RatGE(overall_score, Thresholds[k])})
        /\ \A s \in CategoryScores :
              RatGE(s, overall_score)
                  => Rank(categorize_diff_score(s)) <= Rank(category)

\* the score 0.85 is "minor", the second category
C17_Witness ==
    /\ unit = "cat"
    /\ pc = "done"
    /\ RatEQ(overall_score, <<85, 100>>)
    /\ category = Categories[2]

---------------------------------------------------------------------------
(* Claims about the failures of the command line programs *)

FailedRun == unit = "cli" /\ args.entry = "main" /\ pc = "exited" /\ exit_code # 0

\* C19: a run of compare_images.main, ai_compare.main or glm_diff.main that fails
\* reports the error and returns a non-zero exit code, and the report file at the
\* output path then does not exist or holds a complete report, whatever step
\* failed.
C19_FailedRunLeavesNoPartialReport ==
    FailedRun =>
        /\ Len(errors) >= 1
        /\ report_file \in {"absent", "complete"}

---------------------------------------------------------------------------
(* Claims about whole comparisons *)

Compared == unit = "cmp" /\ pc \in {"compared", "repeated"}
PixelIdentical == request.img1 = request.img2
\* neither the OCR nor the object detection delivers a region for either image
EmptyRegionLists ==
    /\ ~request.use_paddleocr \/ (request.text1 = <<>> /\ request.text2 = <<>>)
    /\ ~request.use_object_detection
           \/ (request.objects1 = <<>> /\ request.objects2 = <<>>)

\* C18: two pixel-identical images of any resolution with empty region lists on
\* both sides give pixel similarity 1.0 with no differing pixel, text similarity
\* 1.0, object similarity 1.0, overall score 1.0, the top category, and empty
\* text and object diff lists.
C18_IdenticalImagesScoreOne ==
    (Compared /\ PixelIdentical /\ EmptyRegionLists) =>
        /\ RatEQ(first_result.pixel_similarity, One)
        /\ first_result.pixel_diff_stats.different_pixels = 0
        /\ RatEQ(first_result.text_similarity, One)
        /\ RatEQ(first_result.object_similarity, One)
        /\ RatEQ(first_result.overall_diff_score, One)
        /\ categorize_diff_score(first_result.overall_diff_score) = Categories[1]
        /\ first_result.text_diffs = <<>>
        /\ first_result.object_diffs = <<>>

\* an image of more than one pixel against itself, object detection switched off
C18_Witness ==
    /\ Compared
    /\ PixelIdentical
    /\ EmptyRegionLists
    /\ request.img1.width > 1
    /\ ~request.use_object_detection
    /\ RatEQ(first_result.overall_diff_score, One)

\* a result without the time it was produced at
Timeless(r) == [r EXCEPT !.timestamp = 0]

---------------------------------------------------------------------------
(* Claims about the snapshot tool *)

\* C21: validate_options returns (1, message) exactly when width <= 0, or
\* height <= 0, or wait is given and negative, the message naming the first
\* offending option in the order width, height, wait; otherwise, wait = 0 and no
\* wait included, it returns (0, None).
C21_ValidateOptions ==
    (unit = "opt" /\ pc = "done") =>
        LET bad_width == options.width <= 0
            bad_height == options.height <= 0
            bad_wait == options.wait_given /\ options.wait < 0
        IN  /\ validation.exit_code = (IF bad_width \/ bad_height \/ bad_wait THEN 1 ELSE 0)
            /\ bad_width => validation.error_msg = "--width"
            /\ (~bad_width /\ bad_height) => validation.error_msg = "--height"
            /\ (~bad_width /\ ~bad_height /\ bad_wait) => validation.error_msg = "--wait"
            /\ ~(bad_width \/ bad_height \/ bad_wait) => validation.error_msg = "None"

\* all three options are bad and the message names --width
C21_Witness ==
    /\ unit = "opt"
    /\ pc = "done"
    /\ options.width < 0
    /\ options.height = 0
    /\ options.wait_given
    /\ options.wait < 0
    /\ validation = [exit_code |-> 1, error_msg |-> "--width"]

FbRunning == unit = "fb" /\ pc # "start"
FbReturned == unit = "fb" /\ pc = "returned"

\* C27: the models of the fallback list are tried in list order, each at most
\* once; a further model is tried only after the attempt before failed with a
\* model-not-found message; the first success returns at once with _model_used
\* set to the model that succeeded; any other failure ends the attempts; when no
\* attempt succeeds the function returns a dict with 'error' and the list of
\* models; the list has more than one model only for the model 'glm-4v'.
C27_FallbackInListOrder ==
    /\ FbRunning =>
          /\ Len(attempts) <= Len(fallback_models)
          /\ \A k \in DOMAIN attempts : attempts[k].model = fallback_models[k]
          /\ \A k, m \in DOMAIN fallback_models :
                k # m => fallback_models[k] # fallback_models[m]
          /\ \A k \in DOMAIN attempts :
                k < Len(attempts) => IsModelNotFound(attempts[k].outcome)
          /\ Len(fallback_models) > 1 => fb_call.model = "glm-4v"
          /\ fallback_models[1] = fb_call.model
    /\ FbReturned =>
          LET succeeded == attempts # <<>> /\ attempts[Len(attempts)].outcome = "ok"
          IN  /\ succeeded =>
                    fb_result = [kind |-> "result",
                                 model_used |-> attempts[Len(attempts)].model]
              /\ ~succeeded =>
                    /\ fb_result = [kind |-> "error", models_tried |-> fallback_models]
                    /\ \/ Len(attempts) = Len(fallback_models)
                       \/ ~IsModelNotFound(attempts[Len(attempts)].outcome)

\* 'glm-4v' is missing, the second model answers
C27_Witness ==
    /\ FbReturned
    /\ fb_call.model = "glm-4v"
    /\ Len(attempts) = 2
    /\ attempts[1] = [model |-> "glm-4v", outcome |-> "error 1211"]
    /\ fb_result = [kind |-> "result", model_used |-> "glm-4v-plus"]


BatchDone == unit = "batch" /\ pc = "done"

\* the non-blank lines of the file, in file order, as they stand in the file
RECURSIVE NonBlankLines(_)
NonBlankLines(lines) ==
    IF lines = <<>> THEN <<>>
    ELSE IF \E k \in DOMAIN Head(lines) : Head(lines)[k] # " "
         THEN <<Head(lines)>> \o NonBlankLines(Tail(lines))
         ELSE NonBlankLines(Tail(lines))

\* C28: run_batch attempts every non-blank line of the batch file exactly once,
\* in file order, and goes on with the next URL after a failure; at the end
\* success_count + error_count is the number of URLs, and the exit code is 0
\* exactly when every URL succeeded: 1 when one failed, when the file is missing
\* or when it holds no URL.
C28_EveryLineAttemptedOnce ==
    BatchDone =>
        LET lines == NonBlankLines(batch_args.lines)
        IN  /\ ~batch_raised
            /\ Len(attempted) = Len(lines)
            /\ \A k \in DOMAIN attempted : attempted[k] = strip(lines[k])
            /\ success_count + error_count = Len(lines)
            /\ batch_exit \in {0, 1}
            /\ batch_exit = 0 <=> (lines # <<>> /\ success_count = Len(lines))
            /\ ~batch_args.exists => batch_exit = 1

\* C30: no two captured URLs of one run_batch call are written to the same
\* output path, so that no screenshot of the batch overwrites an earlier one.
C30_OwnFilePerUrl ==
    unit = "batch" =>
        \A k, m \in DOMAIN saved_files :
            (k # m /\ saved_files[k].captured /\ saved_files[m].captured)
                => saved_files[k].path # saved_files[m].path


StabRunning == unit = "stab" /\ pc = "loop"
StabLeft == unit = "stab" /\ pc \in {"settle", "done"}
StabDone == unit = "stab" /\ pc = "done"

\* the three latest samples equal the height recorded before them
ThreeStable ==
    /\ Len(recent) = 4
    /\ \A k \in 2..4 : recent[k] = recent[1]

\* what the loop keeps at every step
C29_LoopInvariant ==
    unit = "stab" =>
        /\ samples <= max_iterations
        /\ stable_count <= stable_iterations
        /\ last_height = recent[Len(recent)]
        /\ (Len(recent) > 1 /\ recent[Len(recent)] # recent[Len(recent) - 1])
              => stable_count = 0
        /\ StabRunning => ~ThreeStable
        /\ StabLeft => ((samples < max_iterations => ThreeStable)
                        /\ (ThreeStable <=> stable_count = stable_iterations)
                        /\ (~ThreeStable => samples = max_iterations))

\* C29: the loop of _wait_for_page_stabilization ends for every sequence of
\* page heights; it samples the height at most max_iterations (15) times and
\* stops earlier exactly when stable_iterations (3) samples in a row equal the
\* height recorded before them; a change of height sets the stable counter to 0.
C29_StabilizationTerminates == []C29_LoopInvariant /\ <>StabDone

\* the height changes twice, then stays: the loop stops after six samples
C29_Witness ==
    /\ StabDone
    /\ samples = 6
    /\ recent = <<2, 2, 2, 2>>
    /\ stable_count = stable_iterations

=============================================================================
